---- MODULE Spec2Model ----
(***************************************************************************)
(* patra-benchmarks: the benchmark Runners (mcp, rest_mcp, layered_mcp,    *)
(* rest) and the run selection of the Result Aggregator.                   *)
(*                                                                         *)
(* Spec      one Runner invocation writing into its own run directory:     *)
(*           directory setup, session setup, the two sequential latency    *)
(*           loops with their per-row CSV appends, the optional            *)
(*           throughput phase of the native MCP Runner.                    *)
(* SpecRoot  several Runner invocations under one results root, each       *)
(*           labelling its run directory from the wall clock, and          *)
(*           latest_run_dir reading the root.                              *)
(* SpecAgg   invocations of the Result Aggregator (analysis.py, its        *)
(*           archived version, plot.py) over the results roots of the      *)
(*           transports: run selection, the CSV loaders, the per-operation *)
(*           summary and chart.                                            *)
(* SpecViz   the computations of the chart scripts on values already       *)
(*           loaded: timestamps_gantt.py (flags, stage starts and          *)
(*           durations), the Gantt arithmetic of plot.py, visualize.py     *)
(*           (unit conversion, metrics, stacked bars) and the stacked      *)
(*           comparison chart of analysis.py.                              *)
(* SpecThroughput  the native MCP Runner with its throughput phase on,     *)
(*           under the fairness the event loop and the clock provide.      *)
(***************************************************************************)
EXTENDS Integers, Sequences, FiniteSets, TLC

\* ------------------------------------------------------------------ bounds
MaxRuns == 2
MaxDelay == 1
MaxFailures == 2
MaxDuration == 1
MaxConcurrent == 2
MaxCalls == 2
MaxInvocations == 2
MaxTicks == 1
MaxDeviations == 1
MaxAggRuns == 2
\* SpecViz: the largest step between two stage timestamps, the largest
\* recorded time (seconds) of a loaded frame, the largest standard deviation
MaxStep == 1
MaxSeconds == 2
MaxStd == 4

\* --------------------------------------------------------------- constants
Variants == {"mcp", "rest_mcp", "layered_mcp", "rest"}
SessionVariants == {"mcp", "rest_mcp", "layered_mcp"}
Ops == <<"get_modelcard", "search_modelcards">>
OpSet == {Ops[k] : k \in 1..Len(Ops)}

\* src/layered_mcp/client.py CSV_HEADERS
CSV_HEADERS == <<"total_time">>
\* src/rest/client.py csv_headers
csv_headers == <<"timestamp", "dns_lookup", "socket_creation", "tcp_connect",
                 "ssl_context_creation", "ssl_handshake", "request_send",
                 "time_to_first_byte", "response_read", "socket_close",
                 "server_processing", "total_time">>
\* the nine timed stages of measure_detailed_latency, in execution order
Stages == <<"dns_lookup", "socket_creation", "tcp_connect",
            "ssl_context_creation", "ssl_handshake", "request_send",
            "time_to_first_byte", "response_read", "socket_close">>

VARIABLES
    cfg,            \* the environment-variable configuration of the invocation
    pc,             \* position of main()
    op,             \* index into Ops of the operation being benchmarked
    i,              \* loop index of the current latency loop
    now,            \* time.perf_counter()
    req_start_time, \* start stamp of the iteration in progress
    req_end_time,   \* end stamp of the iteration in progress
    detailed_latency, \* result of the last measure_detailed_latency (rest)
    latencies,      \* benchmark_latency's list (mcp)
    sse,            \* sse_client context: "none" | "open" | "closed"
    session,        \* ClientSession context: "none" | "open" | "closed"
    inflight,       \* callers with a call_tool awaiting its response
    disk,           \* op -> lines of <run_dir>/<op>.csv that reached the disk
    fh,             \* op -> "closed" | "open" (file handle of the with block)
    buf,            \* op -> rows written to an open handle, not yet flushed
    tp,             \* benchmark_throughput's total_requests, errors, latencies,
                    \* start_time, end_time
    wpc,            \* worker -> "ready" | "await" | "ready_ok" | "ready_err" | "done"
    req_start,      \* worker -> its req_start
    results,        \* the dicts benchmark_throughput returned so far
    throughput_csv, \* lines of <run_dir>/throughput_results.csv
    hist,           \* observation only: what happened so far
    \* ---- the results root shared by invocations (SpecRoot)
    wall,           \* datetime.now(), in seconds since 2025-01-01 00:00:00
    root_exists,    \* whether the results root exists
    listing,        \* root.iterdir(): entries [name, is_dir]
    run_files,      \* run directory name -> op -> lines, each with its writer
    inv,            \* invocation -> [state, variant, dir, wrote]
    started,        \* observation only: the invocations in start order
    selected,       \* the last latest_run_dir call: what it saw and returned
    \* ---- the Result Aggregator (SpecAgg)
    script,         \* which Aggregator script is invoked
    fs,             \* arm -> its results root: [exists, listing, dirs]
    apc,            \* position of the Aggregator's main()
    run_of,         \* arm -> what latest_run_dir returned for its root
    console,        \* the diagnostics printed by the invocation in progress
    charts,         \* the image files the invocation wrote under OUTPUT_DIR
    stats,          \* operation -> what process_operation computed
    exc,            \* the exception that left main(), or "none"
    past,           \* observation only: the invocations that ended
    \* ---- the chart scripts' computations (SpecViz)
    tool,           \* which script or plotting function runs
    argv,           \* the flags on the command line (timestamps_gantt)
    frames,         \* the values the script loaded or was given
    vpc,            \* position of the script
    viz             \* what it parsed, computed and drew so far

runnerVars == <<cfg, pc, op, i, now, req_start_time, req_end_time,
                detailed_latency, latencies, sse, session, inflight, disk, fh,
                buf, hist>>
tpVars == <<tp, wpc, req_start, results, throughput_csv>>
rootVars == <<wall, root_exists, listing, run_files, inv, started, selected>>
aggVars == <<script, fs, apc, run_of, console, charts, stats, exc, past>>
vizVars == <<tool, argv, frames, vpc, viz>>
vars == <<runnerVars, tpVars, rootVars, aggVars, vizVars>>

\* ------------------------------------------------------------------- files
HeaderLine(h) == [hdr |-> TRUE, cols |-> h]
DataLine(c) == [hdr |-> FALSE, cols |-> c]
DataRows(f) == SelectSeq(f, LAMBDA l : ~l.hdr)

\* open(path, "w"): the file is created or truncated
OpenTruncate(f) == << >>
KeptInBuffer(f, b) == f
\* leaving the with block closes the handle; what writerow buffered reaches disk
FlushOnClose(f, b) == f \o b

NoFiles == [o \in OpSet |-> << >>]
AllClosed == [o \in OpSet |-> "closed"]

\* ----------------------------------------------------------- rest stages
Executes(s, is_https) ==
    is_https \/ Stages[s] \notin {"ssl_context_creation", "ssl_handshake"}

StageNo(name) == CHOOSE s \in 1..Len(Stages) : Stages[s] = name

\* the locals of measure_detailed_latency before its try block: every timing
\* variable is 0 and sock is None; called and returned record which stages
\* had their blocking call started and completed, clock is perf_counter()
\* since start_total
NotMeasured ==
    [stages |-> [s \in 1..Len(Stages) |-> 0], server_processing |-> 0,
     clock |-> 0, sock |-> "none", called |-> {}, returned |-> {}]

\* the call of stage s returned after d: its timing variable is assigned;
\* socket.socket() binds sock, sock.close() closes it
stage_done(m, s, d) ==
    [m EXCEPT !.stages[s] = d,
              !.clock = @ + d,
              !.called = @ \cup {s},
              !.returned = @ \cup {s},
              !.sock = CASE Stages[s] = "socket_creation" -> "open"
                         [] Stages[s] = "socket_close" -> "closed"
                         [] OTHER -> @]

stage_raised_timed(m, s, d) ==
    [m EXCEPT !.stages[s] = d, !.clock = @ + d, !.called = @ \cup {s}]
\* the call of stage s raised after d: its timing variable is not assigned
stage_raised(m, s, d) == [m EXCEPT !.clock = @ + d, !.called = @ \cup {s}]

except_leaks(m) == m
\* except Exception: if sock: try: sock.close() except: pass
except_branch(m) == [m EXCEPT !.sock = IF @ = "open" THEN "closed" ELSE @]

\* The try block from stage s on, in a measurement in which stage failAt
\* raises (0: none does) and every blocking call takes d.
RECURSIVE try_block(_, _, _, _, _)
try_block(m, s, failAt, d, is_https) ==
    IF s > Len(Stages)
    THEN [m EXCEPT !.server_processing = m.stages[StageNo("time_to_first_byte")]]
    ELSE IF ~Executes(s, is_https) THEN try_block(m, s + 1, failAt, d, is_https)
    ELSE IF s = failAt THEN except_branch(stage_raised(m, s, d))
    ELSE try_block(stage_done(m, s, d), s + 1, failAt, d, is_https)

\* total_time = end_total - start_total; the returned dict
ReturnedDict(m) ==
    [stages |-> m.stages, server_processing |-> m.server_processing,
     total_time |-> m.clock]

measure_detailed_latency(failAt, d, is_https) ==
    ReturnedDict(try_block(NotMeasured, 1, failAt, d, is_https))

\* sock.connect() returned (stage 3): the target was reached
Connected(m) == StageNo("tcp_connect") \in m.returned
\* sock is assigned once socket.socket() returned (stage 2)
SocketCreated(m) == StageNo("socket_creation") \in m.returned
\* sock.close() ran as stage 9, or best-effort in the except branch
SocketClosed(m) == m.sock = "closed"

\* --------------------------------------------------------------- contexts
ReleaseLeaks(c) == c
\* async with: __aexit__ runs on normal exit and while an exception unwinds
Release(c) == IF c = "open" THEN "closed" ELSE c

\* ------------------------------------------------------------------- rows
RowOf(variant, s, e, dl) ==
    CASE variant \in {"mcp", "rest_mcp"} -> DataLine(<<s, e>>)
      [] variant = "layered_mcp" -> DataLine(<<e - s>>)
      [] variant = "rest" ->
            DataLine(<<e>> \o dl.stages \o <<dl.server_processing, dl.total_time>>)

\* ------------------------------------------------------------ environment
\* Values of MEASURE_THROUGHPUT, as sequences of characters; Unset: the
\* variable is not in os.environ
Unset == <<"unset">>
Environments ==
    {Unset, << >>, <<"1">>, <<"t">>, <<"y", "e", "s">>,
     <<"t", "r", "u", "e">>, <<"T", "r", "u", "e">>, <<"T", "R", "U", "E">>,
     <<"t", "R", "u", "E">>, <<"t", "r", "u", "e", " ">>,
     <<"f", "a", "l", "s", "e">>, <<"F", "a", "l", "s", "e">>}
UpperCase == <<"A", "E", "F", "L", "R", "S", "T", "U", "Y">>
LowerCase == <<"a", "e", "f", "l", "r", "s", "t", "u", "y">>
\* os.getenv(name, default)
getenv(environ, default) == IF environ = Unset THEN default ELSE environ
\* str.lower()
lower(s) ==
    [k \in 1..Len(s) |->
        IF \E u \in 1..Len(UpperCase) : UpperCase[u] = s[k]
        THEN LowerCase[CHOOSE u \in 1..Len(UpperCase) : UpperCase[u] = s[k]]
        ELSE s[k]]
\* os.getenv("MEASURE_THROUGHPUT", "false").lower() == "true"
measure_throughput_of(environ) ==
    lower(getenv(environ, <<"f", "a", "l", "s", "e">>)) = <<"t", "r", "u", "e">>

\* --------------------------------------------------------------------- Init
Configs ==
    [variant : Variants, runs : 1..MaxRuns, is_https : BOOLEAN, d : 0..MaxDelay,
     measure_throughput : BOOLEAN, throughput_duration : 1..MaxDuration,
     max_concurrent : 1..MaxConcurrent]

\* d: how long each blocking call to the target takes in this invocation.
\* is_https matters to the rest Runner alone, the throughput settings to the
\* mcp Runner alone, the one Runner that reads them; measure_throughput is
\* the flag main() computed from some environment
RunnerConfigs ==
    {c \in Configs :
        /\ c.variant # "rest" => ~c.is_https
        /\ c.variant # "mcp" => ~c.measure_throughput
        /\ \E environ \in Environments :
              c.measure_throughput = measure_throughput_of(environ)
        /\ ~c.measure_throughput =>
              (c.throughput_duration = 1 /\ c.max_concurrent = 1)}

Workers == 1..MaxConcurrent
NoThroughput ==
    [total_requests |-> 0, errors |-> 0, latencies |-> << >>,
     start_time |-> 0, end_time |-> 0]

\* no invocation started yet, nothing selected
NoSelection == [kind |-> "none"]
RootIdle ==
    /\ wall = 0
    /\ root_exists = FALSE
    /\ listing = {}
    /\ run_files = << >>
    /\ inv = << >>
    /\ started = << >>
    /\ selected = NoSelection

\* no Aggregator invocation
AggIdle ==
    /\ script = "analysis"
    /\ fs = << >>
    /\ apc = "idle"
    /\ run_of = << >>
    /\ console = << >>
    /\ charts = {}
    /\ stats = << >>
    /\ exc = "none"
    /\ past = << >>

\* no chart script
VizIdle ==
    /\ tool = "none"
    /\ argv = {}
    /\ frames = << >>
    /\ vpc = "idle"
    /\ viz = << >>

RunnerFresh ==
    /\ tp = NoThroughput
    /\ wpc = [w \in Workers |-> "done"]
    /\ req_start = [w \in Workers |-> 0]
    /\ results = << >>
    /\ throughput_csv = << >>
    /\ pc = "start"
    /\ op = 1
    /\ i = 0
    /\ now = 0
    /\ req_start_time = 0
    /\ req_end_time = 0
    /\ detailed_latency = measure_detailed_latency(1, 0, FALSE)
    /\ latencies = << >>
    /\ sse = "none"
    /\ session = "none"
    /\ inflight = {}
    /\ disk = NoFiles
    /\ fh = AllClosed
    /\ buf = NoFiles
    /\ hist = [issued |-> 0, ok |-> 0, raised |-> 0, setup_failed |-> FALSE,
               opened |-> 0, socks_created |-> 0, socks_open |-> 0,
               connected |-> 0, used |-> {}, tp_issued |-> 0, tp_ok |-> 0, tp_raised |-> 0]

Init ==
    /\ cfg \in RunnerConfigs
    /\ RootIdle
    /\ RunnerFresh
    /\ AggIdle
    /\ VizIdle

\* ------------------------------------------------------- main(): the setup
\* Path(results_dir).mkdir(...); run_dir.mkdir(...)
MakeRunDir ==
    /\ pc = "start"
    /\ pc' = IF cfg.variant \in {"layered_mcp", "rest"} THEN "init_csv"
              ELSE "sse_client"
    /\ UNCHANGED <<tpVars, rootVars, aggVars, vizVars>>
    /\ UNCHANGED <<cfg, op, i, now, req_start_time, req_end_time,
                   detailed_latency, latencies, sse, session, inflight, disk,
                   fh, buf, hist>>

HeaderOf(variant) == IF variant = "rest" THEN csv_headers ELSE CSV_HEADERS

touch_csv_file(f, variant) == OpenTruncate(f)
\* init_csv_file (layered_mcp) / the two header writes of rest main()
init_csv_file(f, variant) ==
    FlushOnClose(OpenTruncate(f), <<HeaderLine(HeaderOf(variant))>>)

InitCsvFiles ==
    /\ pc = "init_csv"
    /\ disk' = [o \in OpSet |-> init_csv_file(disk[o], cfg.variant)]
    /\ pc' = IF cfg.variant = "rest" THEN "loop" ELSE "sse_client"
    /\ UNCHANGED <<tpVars, rootVars, aggVars, vizVars>>
    /\ UNCHANGED <<cfg, op, i, now, req_start_time, req_end_time,
                   detailed_latency, latencies, sse, session, inflight, fh,
                   buf, hist>>

RaisedIgnored == "loop"
\* where main() is once an exception left it
Raised == "aborted"

\* async with sse_client(server_url) as (read_stream, write_stream)
EnterSseClient(out) ==
    /\ pc = "sse_client"
    /\ IF out = "ok"
       THEN /\ sse' = "open"
            /\ pc' = "ClientSession"
            /\ hist' = hist
       ELSE /\ sse' = sse
            /\ pc' = Raised
            /\ hist' = [hist EXCEPT !.setup_failed = TRUE]
    /\ UNCHANGED <<tpVars, rootVars, aggVars, vizVars>>
    /\ UNCHANGED <<cfg, op, i, now, req_start_time, req_end_time,
                   detailed_latency, latencies, session, inflight, disk, fh,
                   buf>>

\* async with ClientSession(read_stream, write_stream) as session
EnterClientSession(out) ==
    /\ pc = "ClientSession"
    /\ IF out = "ok"
       THEN /\ session' = "open"
            /\ sse' = sse
            /\ pc' = "initialize"
            /\ hist' = [hist EXCEPT !.opened = @ + 1]
       ELSE /\ session' = session
            /\ sse' = Release(sse)
            /\ pc' = Raised
            /\ hist' = [hist EXCEPT !.setup_failed = TRUE]
    /\ UNCHANGED <<tpVars, rootVars, aggVars, vizVars>>
    /\ UNCHANGED <<cfg, op, i, now, req_start_time, req_end_time,
                   detailed_latency, latencies, inflight, disk, fh, buf>>

\* await session.initialize()
Initialize(out) ==
    /\ pc = "initialize"
    /\ IF out = "ok"
       THEN /\ session' = session
            /\ sse' = sse
            /\ pc' = "loop"
            /\ hist' = hist
       ELSE /\ session' = Release(session)
            /\ sse' = Release(sse)
            /\ pc' = Raised
            /\ hist' = [hist EXCEPT !.setup_failed = TRUE]
    /\ UNCHANGED <<tpVars, rootVars, aggVars, vizVars>>
    /\ UNCHANGED <<cfg, op, i, now, req_start_time, req_end_time,
                   detailed_latency, latencies, inflight, disk, fh, buf>>

\* ------------------------------------------- the sequential latency loops
LoopOffByOne(k, runs) == k <= runs
\* for _ in range(runs)
LoopContinues(k, runs) == k < runs

AfterCallSwallowed(out) == IF out = "ok" THEN "open" ELSE "loop"
\* where control goes when the awaited call_tool ends: the iteration goes on
\* to its CSV append, or the exception leaves benchmark_latency and main()
AfterCall(out) == IF out = "ok" THEN "open" ELSE Raised

NotAwaited(calls, who) == calls
\* await session.call_tool(...): the caller resumes when its call is over
Awaited(calls, who) == calls \ {who}

\* loop head of a session-based Runner: read the start stamp, issue the call
IssueCall ==
    /\ pc = "loop"
    /\ cfg.variant \in SessionVariants
    /\ LoopContinues(i, cfg.runs)
    /\ req_start_time' = now
    /\ inflight' = inflight \cup {"main"}
    /\ hist' = [hist EXCEPT !.issued = @ + 1, !.used = @ \cup {session}]
    /\ pc' = "await"
    /\ UNCHANGED <<tpVars, rootVars, aggVars, vizVars>>
    /\ UNCHANGED <<cfg, op, i, now, req_end_time, detailed_latency, latencies,
                   sse, session, disk, fh, buf>>

\* the awaited call_tool returns (out = "ok") or raises, cfg.d later
CallReturns(out) ==
    /\ pc = "await"
    /\ now' = now + cfg.d
    /\ inflight' = Awaited(inflight, "main")
    /\ pc' = AfterCall(out)
    /\ IF out = "ok"
       THEN /\ req_end_time' = now'
            /\ latencies' = IF cfg.variant = "mcp"
                             THEN Append(latencies, now' - req_start_time)
                             ELSE latencies
            /\ hist' = [hist EXCEPT !.ok = @ + 1]
       ELSE /\ req_end_time' = req_end_time
            /\ latencies' = latencies
            /\ hist' = [hist EXCEPT !.raised = @ + 1]
    /\ session' = IF pc' = Raised THEN Release(session) ELSE session
    /\ sse' = IF pc' = Raised THEN Release(sse) ELSE sse
    /\ UNCHANGED <<tpVars, rootVars, aggVars, vizVars>>
    /\ UNCHANGED <<cfg, op, i, req_start_time, detailed_latency, disk, fh, buf>>

\* loop head of the rest Runner: measure_detailed_latency has no suspension
\* point, it runs to its return; stage failAt raises (0: none)
Measure(failAt) ==
    /\ pc = "loop"
    /\ cfg.variant = "rest"
    /\ LoopContinues(i, cfg.runs)
    /\ failAt # 0 => /\ hist.raised < MaxFailures
                     /\ Executes(failAt, cfg.is_https)
    /\ detailed_latency' = measure_detailed_latency(failAt, cfg.d, cfg.is_https)
    /\ now' = now + detailed_latency'.total_time
    /\ LET m == try_block(NotMeasured, 1, failAt, cfg.d, cfg.is_https) IN
       hist' = [hist EXCEPT
                  !.issued = @ + 1,
                  !.ok = IF failAt = 0 THEN @ + 1 ELSE @,
                  !.raised = IF failAt # 0 THEN @ + 1 ELSE @,
                  !.connected = IF Connected(m) THEN @ + 1 ELSE @,
                  !.socks_created = IF SocketCreated(m) THEN @ + 1 ELSE @,
                  !.socks_open = IF SocketCreated(m) /\ ~SocketClosed(m)
                                 THEN @ + 1 ELSE @]
    /\ pc' = "open"
    /\ UNCHANGED <<tpVars, rootVars, aggVars, vizVars>>
    /\ UNCHANGED <<cfg, op, i, req_start_time, req_end_time, latencies, sse,
                   session, inflight, disk, fh, buf>>

\* with open(output_file, "a", newline="") as f
OpenCsv ==
    /\ pc = "open"
    /\ fh' = [fh EXCEPT ![Ops[op]] = "open"]
    /\ pc' = "write"
    /\ UNCHANGED <<tpVars, rootVars, aggVars, vizVars>>
    /\ UNCHANGED <<cfg, op, i, now, req_start_time, req_end_time,
                   detailed_latency, latencies, sse, session, inflight, disk,
                   buf, hist>>

\* writer.writerow(...): the rest Runner stamps the row with time.time()
WriteRow ==
    /\ pc = "write"
    /\ buf' = [buf EXCEPT ![Ops[op]] =
                 Append(@, RowOf(cfg.variant, req_start_time,
                                 IF cfg.variant = "rest" THEN now ELSE req_end_time,
                                 detailed_latency))]
    /\ pc' = "close"
    /\ UNCHANGED <<tpVars, rootVars, aggVars, vizVars>>
    /\ UNCHANGED <<cfg, op, i, now, req_start_time, req_end_time,
                   detailed_latency, latencies, sse, session, inflight, disk,
                   fh, hist>>

\* the with block ends: the handle is closed, the iteration is over
CloseCsv ==
    /\ pc = "close"
    /\ disk' = [disk EXCEPT ![Ops[op]] = FlushOnClose(@, buf[Ops[op]])]
    /\ buf' = [buf EXCEPT ![Ops[op]] = << >>]
    /\ fh' = [fh EXCEPT ![Ops[op]] = "closed"]
    /\ i' = i + 1
    /\ pc' = "loop"
    /\ UNCHANGED <<tpVars, rootVars, aggVars, vizVars>>
    /\ UNCHANGED <<cfg, op, now, req_start_time, req_end_time,
                   detailed_latency, latencies, sse, session, inflight, hist>>

ThroughputAlways(c) == IF c.variant = "mcp" THEN "throughput" ELSE "exit"
\* if measure_throughput: (mcp main() only)
AfterLatency(c) ==
    IF c.variant = "mcp" /\ c.measure_throughput THEN "throughput" ELSE "exit"

\* a latency loop is exhausted: on to search_modelcards, then out of the loops
LoopDone ==
    /\ pc = "loop"
    /\ ~LoopContinues(i, cfg.runs)
    /\ IF op < Len(Ops)
       THEN /\ op' = op + 1
            /\ i' = 0
            /\ latencies' = << >>
            /\ pc' = "loop"
       ELSE /\ op' = IF AfterLatency(cfg) = "throughput" THEN 1 ELSE op
            /\ i' = i
            /\ latencies' = latencies
            /\ pc' = AfterLatency(cfg)
    /\ UNCHANGED <<tpVars, rootVars, aggVars, vizVars>>
    /\ UNCHANGED <<cfg, now, req_start_time, req_end_time, detailed_latency,
                   sse, session, inflight, disk, fh, buf, hist>>

\* main() returns: both async with blocks are left
ExitMain ==
    /\ pc = "exit"
    /\ session' = Release(session)
    /\ sse' = Release(sse)
    /\ pc' = "done"
    /\ UNCHANGED <<tpVars, rootVars, aggVars, vizVars>>
    /\ UNCHANGED <<cfg, op, i, now, req_start_time, req_end_time,
                   detailed_latency, latencies, inflight, disk, fh, buf, hist>>

\* --------------------------------------------- benchmark_throughput (mcp)
\* total_requests += 1
CountRequest(n) == n + 1
CountErrorSkipped(n) == n
\* errors += 1
CountError(n) == n + 1
\* latencies.append(req_end - req_start)
RecordLatency(l, v) == Append(l, v)
NoDeadline(t, end_time) == TRUE
\* while time.perf_counter() < end_time
BeforeDeadline(t, end_time) == t < end_time

\* benchmark_throughput up to asyncio.gather: the counters, the deadline, one
\* worker task per max_concurrent
StartThroughput ==
    /\ pc = "throughput"
    /\ tp' = [total_requests |-> 0, errors |-> 0, latencies |-> << >>,
              start_time |-> now, end_time |-> now + cfg.throughput_duration]
    /\ wpc' = [w \in Workers |-> IF w <= cfg.max_concurrent THEN "ready" ELSE "done"]
    /\ req_start' = [w \in Workers |-> 0]
    /\ hist' = [hist EXCEPT !.tp_issued = 0, !.tp_ok = 0, !.tp_raised = 0]
    /\ pc' = "gather"
    /\ UNCHANGED <<rootVars, aggVars, vizVars>>
    /\ UNCHANGED <<cfg, op, i, now, req_start_time, req_end_time,
                   detailed_latency, latencies, sse, session, inflight, disk,
                   fh, buf, results, throughput_csv>>

\* what a worker's resumption does to the shared counters and list before it
\* reaches the while test again
Resumed(t, w) ==
    CASE wpc[w] = "ready_ok" ->
            [t EXCEPT !.latencies = RecordLatency(@, now - req_start[w]),
                      !.total_requests = CountRequest(@)]
      [] wpc[w] = "ready_err" -> [t EXCEPT !.errors = CountError(@)]
      [] OTHER -> t

\* worker(): one scheduling of worker w by the event loop, from where it was
\* resumed to its next suspension (the await of call_tool) or its return
WorkerRun(w) ==
    /\ pc = "gather"
    /\ wpc[w] \in {"ready", "ready_ok", "ready_err"}
    /\ tp' = Resumed(tp, w)
    /\ IF BeforeDeadline(now, tp.end_time)
       THEN /\ hist.tp_issued < MaxCalls
            /\ req_start' = [req_start EXCEPT ![w] = now]
            /\ inflight' = inflight \cup {w}
            /\ wpc' = [wpc EXCEPT ![w] = "await"]
            /\ hist' = [hist EXCEPT !.tp_issued = @ + 1, !.issued = @ + 1,
                                    !.used = @ \cup {session}]
       ELSE /\ req_start' = req_start
            /\ inflight' = inflight
            /\ wpc' = [wpc EXCEPT ![w] = "done"]
            /\ hist' = hist
    /\ UNCHANGED <<rootVars, aggVars, vizVars>>
    /\ UNCHANGED <<cfg, pc, op, i, now, req_start_time, req_end_time,
                   detailed_latency, latencies, sse, session, disk, fh, buf,
                   results, throughput_csv>>

\* the response (or the failure) of worker w's call arrives: w is runnable
CallCompletes(w, out) ==
    /\ pc = "gather"
    /\ wpc[w] = "await"
    /\ inflight' = Awaited(inflight, w)
    /\ wpc' = [wpc EXCEPT ![w] = IF out = "ok" THEN "ready_ok" ELSE "ready_err"]
    /\ hist' = [hist EXCEPT !.tp_ok = IF out = "ok" THEN @ + 1 ELSE @,
                            !.tp_raised = IF out = "ok" THEN @ ELSE @ + 1]
    /\ UNCHANGED <<rootVars, aggVars, vizVars>>
    /\ UNCHANGED <<cfg, pc, op, i, now, req_start_time, req_end_time,
                   detailed_latency, latencies, sse, session, disk, fh, buf,
                   tp, req_start, results, throughput_csv>>

\* time.perf_counter() advances while the workers run; past the deadline no
\* test of the workers reads a different answer, so the clock stops there
Tick ==
    /\ pc = "gather"
    /\ now < tp.end_time
    /\ now' = now + 1
    /\ UNCHANGED <<rootVars, aggVars, vizVars>>
    /\ UNCHANGED <<cfg, pc, op, i, req_start_time, req_end_time,
                   detailed_latency, latencies, sse, session, inflight, disk,
                   fh, buf, hist, tpVars>>

\* total_requests / actual_duration if actual_duration > 0 else 0, kept as the
\* fraction <<numerator, denominator>>
Throughput(total, actual_duration) ==
    IF actual_duration > 0 THEN <<total, actual_duration>> ELSE <<0, 1>>

\* asyncio.gather returned: benchmark_throughput builds its result
FinishThroughput ==
    /\ pc = "gather"
    /\ \A w \in Workers : wpc[w] = "done"
    /\ results' = Append(results,
            [operation |-> Ops[op],
             total_requests |-> tp.total_requests,
             errors |-> tp.errors,
             duration |-> now - tp.start_time,
             throughput |-> Throughput(tp.total_requests, now - tp.start_time),
             latencies |-> tp.latencies])
    /\ IF op < Len(Ops)
       THEN /\ op' = op + 1
            /\ pc' = "throughput"
       ELSE /\ op' = op
            /\ pc' = "save_throughput"
    /\ UNCHANGED <<rootVars, aggVars, vizVars>>
    /\ UNCHANGED <<cfg, i, now, req_start_time, req_end_time,
                   detailed_latency, latencies, sse, session, inflight, disk,
                   fh, buf, hist, tp, wpc, req_start, throughput_csv>>

throughput_header ==
    <<"operation", "throughput_rps", "total_requests", "errors", "duration_s",
      "avg_latency_ms">>

\* with open(run_dir / "throughput_results.csv", "w", newline="") as f
SaveThroughput ==
    /\ pc = "save_throughput"
    /\ throughput_csv' =
          FlushOnClose(OpenTruncate(throughput_csv),
             <<HeaderLine(throughput_header)>> \o
             [k \in 1..Len(results) |->
                DataLine(<<results[k].operation, results[k].throughput,
                           results[k].total_requests, results[k].errors,
                           results[k].duration, results[k].latencies>>)])
    /\ pc' = "exit"
    /\ UNCHANGED <<rootVars, aggVars, vizVars>>
    /\ UNCHANGED <<cfg, op, i, now, req_start_time, req_end_time,
                   detailed_latency, latencies, sse, session, inflight, disk,
                   fh, buf, hist, tp, wpc, req_start, results>>

Outcomes == {"ok", "raise"}

Next ==
    \/ MakeRunDir
    \/ InitCsvFiles
    \/ \E out \in Outcomes : EnterSseClient(out)
    \/ \E out \in Outcomes : EnterClientSession(out)
    \/ \E out \in Outcomes : Initialize(out)
    \/ IssueCall
    \/ \E out \in Outcomes : CallReturns(out)
    \/ \E failAt \in 0..Len(Stages) : Measure(failAt)
    \/ OpenCsv
    \/ WriteRow
    \/ CloseCsv
    \/ LoopDone
    \/ StartThroughput
    \/ \E w \in Workers : WorkerRun(w)
    \/ \E w \in Workers, out \in Outcomes : CallCompletes(w, out)
    \/ Tick
    \/ FinishThroughput
    \/ SaveThroughput
    \/ ExitMain

Spec == Init /\ [][Next]_vars

\* =================================================================== claims
Rows(o) == Len(DataRows(disk[o]))
TotalRows == Rows("get_modelcard") + Rows("search_modelcards")
Finished == pc \in {"done", "aborted"}
LatencyPcs == {"loop", "await", "open", "write", "close"}
\* iterations whose call returned: every measurement of the rest Runner
\* returns, a call_tool that raised did not
Returned == IF cfg.variant = "rest" THEN hist.issued ELSE hist.ok
\* iterations completed before the one at the loop head
IterationsDone ==
    IF pc \in LatencyPcs THEN (op - 1) * cfg.runs + i ELSE Len(Ops) * cfg.runs
RowWidth(variant) ==
    CASE variant \in {"mcp", "rest_mcp"} -> Len(<<"start", "end">>)
      [] variant = "layered_mcp" -> Len(CSV_HEADERS)
      [] variant = "rest" -> Len(csv_headers)

\* C1: for every N >= 1 and every pattern of call outcomes, each operation's
\* CSV never holds more than N data rows, during and after the run; once the
\* target was reached, a run ends with fewer than N rows in a CSV only if a
\* call failed.
C1_AtMostNRows ==
    \A o \in OpSet :
        /\ Rows(o) <= cfg.runs
        /\ (Finished /\ ~hist.setup_failed /\ Rows(o) < cfg.runs)
              => hist.raised > 0
C1_Witness ==
    /\ pc = "aborted" /\ hist.raised > 0 /\ cfg.runs = MaxRuns
    /\ Rows("get_modelcard") = MaxRuns /\ Rows("search_modelcards") = 1

\* C2 as stated: a failed call writes no row and does not abort the run, the
\* loop goes on with the next iteration.
C2_SkippedAndContinues ==
    hist.raised > 0 => (pc # "aborted" /\ TotalRows <= hist.ok)
\* C2 amended: in a session-based Runner a call that raises writes no row and
\* ends the run (no later call is issued); in the rest Runner the failure
\* stays inside measure_detailed_latency, the iteration appends its row and
\* the loop goes on to the end.
C2_FailedCall ==
    /\ (cfg.variant \in SessionVariants /\ hist.raised > 0) =>
          /\ pc = "aborted"
          /\ inflight = {}
          /\ TotalRows = hist.ok
          /\ hist.issued = hist.ok + 1
    /\ cfg.variant = "rest" =>
          /\ pc # "aborted"
          /\ pc = "loop" => TotalRows = hist.issued
          /\ pc = "done" => TotalRows = Len(Ops) * cfg.runs
C2_Witness ==
    /\ cfg.variant = "rest_mcp" /\ pc = "aborted"
    /\ hist.raised = 1 /\ hist.ok = 1 /\ TotalRows = 1
C2_WitnessRest ==
    /\ cfg.variant = "rest" /\ pc = "done" /\ hist.raised > 0

\* C3: in sequential latency mode iterations do not overlap: at most one call
\* is in flight, and when the call of an iteration is issued every earlier
\* iteration has its row appended, with the file closed again.
C3_NoOverlap ==
    pc # "gather" =>
        /\ inflight = IF pc = "await" THEN {"main"} ELSE {}
        /\ pc \in {"loop", "await"} =>
              /\ Rows(Ops[op]) = i
              /\ \A o \in OpSet : fh[o] = "closed" /\ buf[o] = << >>
        /\ (pc \in LatencyPcs /\ op > 1) => Rows(Ops[1]) = cfg.runs
C3_Witness ==
    /\ pc = "await" /\ op = Len(Ops) /\ i = 1 /\ Rows(Ops[op]) = 1

\* C4: rows are written incrementally: whenever the Runner is at a loop head
\* or past the loops, the disk holds one complete row per completed
\* iteration; at any point at most the iteration in progress is missing.
C4_Incremental ==
    /\ \A o \in OpSet : \A k \in 1..Len(disk[o]) :
          ~disk[o][k].hdr => Len(disk[o][k].cols) = RowWidth(cfg.variant)
    /\ pc \in {"loop", "await", "throughput", "gather", "save_throughput",
                "exit", "done"} => TotalRows = IterationsDone
    /\ Returned - TotalRows \in {0, 1}
    /\ Returned - TotalRows = 1 => pc \in {"open", "write", "close"}
C4_Witness ==
    /\ pc = "write" /\ op = Len(Ops) /\ i = 1
    /\ TotalRows = cfg.runs + 1 /\ Returned = cfg.runs + 2

\* C5 as stated: a Runner that cannot establish its connection to the target
\* aborts, and no data row has been written.
TargetNeverReached ==
    IF cfg.variant = "rest" THEN hist.issued > 0 /\ hist.connected = 0
    ELSE hist.setup_failed
C5_AbortsWithoutRows ==
    (Finished /\ TargetNeverReached) => (pc = "aborted" /\ TotalRows = 0)
\* C5 amended: a session-based Runner whose setup (sse_client, ClientSession,
\* initialize) raises aborts before any call is issued and has written no data
\* row; the rest Runner has no setup step, it never aborts and ends with N
\* rows per operation whether or not its target was ever reached.
C5_SetupFailure ==
    /\ hist.setup_failed =>
          /\ cfg.variant \in SessionVariants
          /\ pc = "aborted"
          /\ hist.issued = 0
          /\ TotalRows = 0
    /\ cfg.variant = "rest" =>
          /\ pc # "aborted"
          /\ pc = "done" => \A o \in OpSet : Rows(o) = cfg.runs
C5_Witness ==
    /\ cfg.variant = "layered_mcp" /\ hist.setup_failed /\ pc = "aborted"
    /\ session = "closed"
    /\ \A o \in OpSet : Len(disk[o]) = 1

\* C6 as stated: an invocation opens exactly one connection to the target,
\* reuses it for every call and has released it when it exits.
C6_OneConnection ==
    /\ hist.opened + hist.socks_created <= 1
    /\ Finished => (session # "open" /\ sse # "open" /\ hist.socks_open = 0)
\* C6 amended: a session-based Runner opens at most one session (exactly one
\* once a call was issued), issues every call on that open session and has
\* left both context managers when main() is left, by return or by an
\* exception of a call or a setup step; the rest Runner opens a socket per
\* measurement, at most one per call, and none is open after the measurement.
C6_SessionScope ==
    /\ cfg.variant \in SessionVariants =>
          /\ hist.opened <= 1
          /\ hist.issued > 0 => hist.opened = 1
          /\ hist.used \subseteq {"open"}
          /\ session = "open" => sse = "open"
          /\ Finished => (session # "open" /\ sse # "open")
          /\ hist.socks_created = 0
    /\ cfg.variant = "rest" =>
          /\ hist.opened = 0 /\ session = "none" /\ sse = "none"
          /\ hist.socks_created <= hist.issued
          /\ hist.connected <= hist.socks_created
          /\ hist.socks_open = 0
C6_Witness ==
    /\ cfg.variant = "mcp" /\ pc = "aborted" /\ hist.raised = 1
    /\ hist.ok = cfg.runs /\ hist.opened = 1
    /\ session = "closed" /\ sse = "closed"

\* C7: in throughput mode, for every interleaving of the workers, once all
\* workers returned total_requests is the number of calls that returned,
\* errors the number that raised, and latencies has total_requests entries;
\* before that, the only updates missing are those of workers not yet
\* resumed.
NotResumed(kind) == Cardinality({w \in Workers : wpc[w] = kind})
C7_NoLostUpdate ==
    pc = "gather" =>
        /\ tp.total_requests + NotResumed("ready_ok") = hist.tp_ok
        /\ tp.errors + NotResumed("ready_err") = hist.tp_raised
        /\ Len(tp.latencies) = tp.total_requests
        /\ (\A w \in Workers : wpc[w] = "done") =>
              /\ tp.total_requests = hist.tp_ok
              /\ tp.errors = hist.tp_raised
              /\ hist.tp_issued = hist.tp_ok + hist.tp_raised
C7_Witness ==
    /\ pc = "gather" /\ cfg.max_concurrent = MaxConcurrent
    /\ \A w \in Workers : wpc[w] = "done"
    /\ tp.total_requests >= 1 /\ tp.errors >= 1

\* ================================================= the shared results root
\* ---------------------------------------------------------------- names
\* the characters of the names below, in code point order
Alphabet == <<"0", "1", "2", "3", "4", "5", "6", "7", "8", "9", "_",
              "n", "r", "s", "u", "z">>
Ord(c) == CHOOSE k \in 1..Len(Alphabet) : Alphabet[k] = c

\* str.__lt__ (the order sorted() puts Paths of one parent in): the first
\* differing character decides, a proper prefix is smaller
RECURSIVE LexLess(_, _)
LexLess(a, b) ==
    IF a = << >> THEN b # << >>
    ELSE IF b = << >> THEN FALSE
    ELSE IF Head(a) # Head(b) THEN Ord(Head(a)) < Ord(Head(b))
    ELSE LexLess(Tail(a), Tail(b))

\* str.startswith
startswith(name, prefix) ==
    /\ Len(name) >= Len(prefix)
    /\ SubSeq(name, 1, Len(prefix)) = prefix

RunPrefix == <<"r", "u", "n", "_">>

\* ------------------------------------------------------------- strftime
Digits == <<"0", "1", "2", "3", "4", "5", "6", "7", "8", "9">>
Digit(n) == Digits[n + 1]
Unpadded(n) ==
    IF n < 10 THEN <<Digit(n)>> ELSE <<Digit(n \div 10), Digit(n % 10)>>
\* %d %H %M %S: two digits, zero-padded
Pad2(n) == <<Digit(n \div 10), Digit(n % 10)>>

\* datetime.now().strftime("%Y%m%d_%H%M%S"), t seconds into January 2025
strftime(t) ==
    <<"2", "0", "2", "5">> \o <<"0", "1">> \o Pad2(1 + t \div 86400) \o <<"_">>
    \o Pad2((t \div 3600) % 24) \o Pad2((t \div 60) % 60) \o Pad2(t % 60)

\* f"run_{run_stamp}"
run_dir(t) == RunPrefix \o strftime(t)

\* -------------------------------------------------------- latest_run_dir
NameOnly(e) == startswith(e.name, RunPrefix)
\* p.is_dir() and p.name.startswith("run_")
IsRunDir(e) == e.is_dir /\ startswith(e.name, RunPrefix)

\* sorted(run_dirs)
RECURSIVE sorted(_)
sorted(S) ==
    IF S = {} THEN << >>
    ELSE LET least == CHOOSE x \in S : \A y \in S : x = y \/ LexLess(x, y)
         IN  <<least>> \o sorted(S \ {least})

NoFallback(exists, entries) ==
    LET run_dirs == {e.name : e \in {x \in entries : IsRunDir(x)}}
    IN  IF ~exists \/ run_dirs = {} THEN [kind |-> "FileNotFoundError"]
        ELSE [kind |-> "run", name |-> sorted(run_dirs)[Len(sorted(run_dirs))]]

latest_run_dir(exists, entries) ==
    IF ~exists THEN [kind |-> "FileNotFoundError"]
    ELSE LET run_dirs == {e.name : e \in {x \in entries : IsRunDir(x)}}
         IN  IF run_dirs = {} THEN [kind |-> "root"]
             ELSE [kind |-> "run", name |-> sorted(run_dirs)[Len(sorted(run_dirs))]]

\* ----------------------------------------------------------- the root
\* what a results root may hold before the invocations: a file and
\* directories that are no run directories, and the directory of an old run
ForeignEntries ==
    {[name |-> <<"r", "u", "n", "_", "z">>, is_dir |-> FALSE],
     [name |-> <<"z", "z">>, is_dir |-> TRUE],
     [name |-> <<"r", "u", "n", "s">>, is_dir |-> TRUE],
     [name |-> run_dir(7), is_dir |-> TRUE]}

RootListings == {{}, ForeignEntries}

\* the wall clock starts shortly before a second, an hour or a day rolls over
WallStarts == {9, 86399}
WallTimes == UNION {s..(s + MaxTicks) : s \in WallStarts}

Invocations == 1..MaxInvocations
Idle == [state |-> "idle", dir |-> << >>, wrote |-> 0]
\* a line of a CSV and the invocation that wrote it (0: before the model)
LineBy(r, header) == [hdr |-> header, by |-> r]

IdleConfig ==
    [variant |-> "mcp", runs |-> 1, is_https |-> FALSE, d |-> 0,
     measure_throughput |-> FALSE, throughput_duration |-> 1,
     max_concurrent |-> 1]

RootInit ==
    /\ cfg = IdleConfig
    /\ RunnerFresh
    /\ AggIdle
    /\ VizIdle
    /\ wall \in WallStarts
    /\ root_exists \in BOOLEAN
    /\ listing \in IF root_exists THEN RootListings ELSE {{}}
    /\ run_files = [n \in {e.name : e \in {x \in listing : IsRunDir(x)}} |->
                      [o \in OpSet |-> <<LineBy(0, FALSE)>>]]
    /\ inv = [r \in Invocations |-> Idle]
    /\ started = << >>
    /\ selected = NoSelection

\* main() of every Runner: Path(results_dir).mkdir(parents=True,
\* exist_ok=True); run_dir named after datetime.now();
\* run_dir.mkdir(parents=True, exist_ok=True). Invocations are numbered in
\* the order they start.
RunnerStart(r, variant) ==
    /\ inv[r].state = "idle"
    /\ r = Len(started) + 1
    /\ LET d == run_dir(wall) IN
        /\ root_exists' = TRUE
        /\ listing' = listing \cup {[name |-> d, is_dir |-> TRUE]}
        /\ run_files' = [n \in DOMAIN run_files \cup {d} |->
                           IF n \in DOMAIN run_files THEN run_files[n]
                           ELSE NoFiles]
        /\ inv' = [inv EXCEPT ![r] =
                     [state |-> IF variant \in {"layered_mcp", "rest"}
                                THEN "init_csv" ELSE "running",
                      dir |-> d, wrote |-> 0]]
    /\ started' = Append(started, r)
    /\ UNCHANGED <<runnerVars, tpVars, aggVars, vizVars, wall, selected>>

\* init_csv_file / the header writes of rest main(): open(csv_file, "w")
RunnerInitCsv(r) ==
    /\ inv[r].state = "init_csv"
    /\ run_files' = [run_files EXCEPT ![inv[r].dir] =
                       [o \in OpSet |->
                          FlushOnClose(OpenTruncate(@[o]), <<LineBy(r, TRUE)>>)]]
    /\ inv' = [inv EXCEPT ![r].state = "running"]
    /\ UNCHANGED <<runnerVars, tpVars, aggVars, vizVars, wall, root_exists, listing, started,
                   selected>>

\* one iteration's with open(file, "a") ... writer.writerow(...); here every
\* invocation runs one iteration per operation
RunnerAppend(r) ==
    /\ inv[r].state = "running"
    /\ inv[r].wrote < Len(Ops)
    /\ LET o == Ops[inv[r].wrote + 1] IN
        run_files' = [run_files EXCEPT ![inv[r].dir][o] =
                        FlushOnClose(@, <<LineBy(r, FALSE)>>)]
    /\ inv' = [inv EXCEPT ![r].wrote = @ + 1]
    /\ UNCHANGED <<runnerVars, tpVars, aggVars, vizVars, wall, root_exists, listing, started,
                   selected>>

\* main() is left, by its return or by an exception
RunnerExit(r) ==
    /\ inv[r].state \in {"init_csv", "running"}
    /\ inv' = [inv EXCEPT ![r].state = "exited", ![r].wrote = 0]
    /\ UNCHANGED <<runnerVars, tpVars, aggVars, vizVars, wall, root_exists, listing, run_files,
                   started, selected>>

\* the Aggregator calls latest_run_dir on the root
SelectRun ==
    /\ selected = NoSelection
    /\ selected' = latest_run_dir(root_exists, listing)
    /\ UNCHANGED <<runnerVars, tpVars, aggVars, vizVars, wall, root_exists, listing, run_files,
                   inv, started>>

\* the Aggregator invocation that made the call ends
AggregatorExit ==
    /\ selected # NoSelection
    /\ selected' = NoSelection
    /\ UNCHANGED <<runnerVars, tpVars, aggVars, vizVars, wall, root_exists, listing, run_files,
                   inv, started>>

\* a second passes
WallTick ==
    /\ wall + 1 \in WallTimes
    /\ wall' = wall + 1
    /\ UNCHANGED <<runnerVars, tpVars, aggVars, vizVars, root_exists, listing, run_files, inv,
                   started, selected>>

RootNext ==
    \/ \E r \in Invocations, variant \in Variants : RunnerStart(r, variant)
    \/ \E r \in Invocations : RunnerInitCsv(r)
    \/ \E r \in Invocations : RunnerAppend(r)
    \/ \E r \in Invocations : RunnerExit(r)
    \/ SelectRun
    \/ AggregatorExit
    \/ WallTick

SpecRoot == RootInit /\ [][RootNext]_vars

\* ------------------------------------------------------ claims on the root
Started == {started[k] : k \in 1..Len(started)}
\* the step in which latest_run_dir is called and returns
Selects == selected = NoSelection /\ selected' # NoSelection
\* the names of the sub-directories of the root that start with "run_"
RunDirNames ==
    {e.name : e \in {x \in listing : x.is_dir /\ startswith(x.name, RunPrefix)}}

\* C8: two invocations that share a results root never share a run
\* directory, so every line of a CSV in a run directory was written by the
\* one invocation that owns the directory.
C8_OneWriterPerRunDir ==
    /\ \A r1, r2 \in Started : r1 # r2 => inv[r1].dir # inv[r2].dir
    /\ \A r \in Started : \A o \in OpSet :
          \A k \in 1..Len(run_files[inv[r].dir][o]) :
              run_files[inv[r].dir][o][k].by = r

\* C9: on an existing root with at least one sub-directory named run_*,
\* latest_run_dir returns the one of them whose name is lexicographically
\* greatest; files and other directories do not influence the result.
C9_LexGreatest ==
    [][(Selects /\ root_exists /\ RunDirNames # {}) =>
          /\ selected'.kind = "run"
          /\ selected'.name \in RunDirNames
          /\ \A n \in RunDirNames : n = selected'.name \/ LexLess(n, selected'.name)
          /\ selected' = latest_run_dir(TRUE,
                            {[name |-> n, is_dir |-> TRUE] : n \in RunDirNames})
      ]_vars
C9_Witness ==
    /\ selected # NoSelection /\ selected.kind = "run"
    /\ listing = ForeignEntries \cup {[name |-> selected.name, is_dir |-> TRUE]}
    /\ Len(started) = 1 /\ selected.name = inv[started[1]].dir

\* C10: whatever Runner invocations wrote under the root, latest_run_dir
\* returns the run directory of the invocation that was started last.
C10_MostRecent ==
    [][(Selects /\ started # << >>) =>
          /\ selected'.kind = "run"
          /\ selected'.name = inv[started[Len(started)]].dir
      ]_vars
C10_Witness ==
    /\ selected # NoSelection /\ selected.kind = "run"
    /\ Len(started) = 2
    /\ inv[started[1]].dir = run_dir(86399)
    /\ inv[started[2]].dir = run_dir(86400)
    /\ selected.name = inv[started[2]].dir

\* ===================================================== the Result Aggregator
\* ------------------------------------------------------- files under a root
\* the header of a staged pipeline timestamps file
staged_headers == <<"start_timestamp", "base_model_card_timestamp",
                    "enrich_ai_model_timestamp",
                    "enrich_bias_analysis_timestamp",
                    "enrich_xai_analysis_timestamp">>
\* the column names that contain 'timestamp'
TimestampNames ==
    {"timestamp"} \cup {staged_headers[j] : j \in 1..Len(staged_headers)}

\* the k-th measured call of a file: when it started, how long it took
Start(k, d) == (k - 1) * (d + k)
Dur(k, d) == d + k - 1

\* what the Runners and the database instrumentation leave in <op>.csv
PairRows(n, d) ==
    [k \in 1..n |-> RowOf("mcp", Start(k, d), Start(k, d) + Dur(k, d),
                          measure_detailed_latency(0, d, FALSE))]
ScalarRows(n, d) ==
    [k \in 1..n |-> RowOf("layered_mcp", Start(k, d), Start(k, d) + Dur(k, d),
                          measure_detailed_latency(0, d, FALSE))]
RestRows(n, d) ==
    [k \in 1..n |-> RowOf("rest", Start(k, d),
                          Start(k, d) + measure_detailed_latency(0, d, FALSE).total_time,
                          measure_detailed_latency(0, d, FALSE))]
StagedRows(n, d) ==
    [k \in 1..n |-> DataLine(<<Start(k, d), Start(k, d), Start(k, d),
                               Start(k, d) + d, Start(k, d) + Dur(k, d)>>)]

\* a staged file that also carries the total wall time of each request
staged_total_headers == staged_headers \o <<"req_start_time", "req_end_time">>
StagedTotalRows(n, d) ==
    [k \in 1..n |-> DataLine(StagedRows(n, d)[k].cols
                             \o <<Start(k, d), Start(k, d) + Dur(k, d) + 1>>)]

Shapes == {"absent", "empty", "header_only", "pair", "scalar", "layered",
           "rest", "staged", "staged_total"}
FileOf(shape, n, d) ==
    CASE shape = "empty" -> << >>
      [] shape = "header_only" -> init_csv_file(<< >>, "layered_mcp")
      [] shape = "pair" -> PairRows(n, d)
      [] shape = "scalar" -> ScalarRows(n, d)
      [] shape = "layered" -> init_csv_file(<< >>, "layered_mcp") \o ScalarRows(n, d)
      [] shape = "rest" -> init_csv_file(<< >>, "rest") \o RestRows(n, d)
      [] shape = "staged" -> <<HeaderLine(staged_headers)>> \o StagedRows(n, d)
      [] shape = "staged_total" ->
            <<HeaderLine(staged_total_headers)>> \o StagedTotalRows(n, d)

\* ----------------------------------------------------------------- pandas
None == [kind |-> "None"]
Raise(e) == [kind |-> "raise", exc |-> e]

AlwaysExists(files, filename) == TRUE
\* path.exists()
path_exists(files, filename) == filename \in DOMAIN files

\* pd.read_csv(path, header=None) / pd.read_csv(path): a file without a line
\* has no columns to parse; without header=None the first line names the
\* columns; a column that holds a cell that is no number is of dtype object
read_csv(files, filename, header_none) ==
    IF filename \notin DOMAIN files THEN Raise("FileNotFoundError")
    ELSE LET f == files[filename] IN
         IF f = << >> THEN Raise("EmptyDataError")
         ELSE IF \E k \in 1..Len(f) : Len(f[k].cols) > Len(f[1].cols)
              THEN Raise("ParserError")
         ELSE LET body == IF header_none THEN f ELSE Tail(f) IN
              [kind |-> "df",
               columns |-> IF header_none THEN << >>
                           ELSE IF f[1].hdr THEN f[1].cols
                           ELSE [j \in 1..Len(f[1].cols) |-> ToString(f[1].cols[j])],
               rows |-> [k \in 1..Len(body) |-> body[k].cols],
               text |-> \E k \in 1..Len(body) : body[k].hdr,
               width |-> Len(f[1].cols)]

\* df.empty
df_empty(df) == df.rows = << >>
\* df.iloc[:, j] (j counted from 0)
iloc(df, j) == [k \in 1..Len(df.rows) |-> df.rows[k][j + 1]]
\* df[name]
ColIndex(df, name) == CHOOSE j \in 1..Len(df.columns) : df.columns[j] = name
HasColumn(df, name) == \E j \in 1..Len(df.columns) : df.columns[j] = name

Series(v) == [kind |-> "Series", values |-> v]
Minus(a, b) == [k \in 1..Len(a) |-> a[k] - b[k]]
\* series * 1000.0
Times1000(v) == [k \in 1..Len(v) |-> v[k] * 1000]

RECURSIVE SeriesSum(_)
SeriesSum(v) == IF v = << >> THEN 0 ELSE Head(v) + SeriesSum(Tail(v))
Squares(v) == [k \in 1..Len(v) |-> v[k] * v[k]]

\* Series.mean(), as the fraction num / den
mean(v) == [num |-> SeriesSum(v), den |-> Len(v)]
\* Series.std() (ddof = 1), by its square num / den; NaN for a single value
std(v) ==
    IF Len(v) < 2 THEN [nan |-> TRUE, num |-> 0, den |-> 1]
    ELSE [nan |-> FALSE,
          num |-> Len(v) * SeriesSum(Squares(v)) - SeriesSum(v) * SeriesSum(v),
          den |-> Len(v) * (Len(v) - 1)]

\* ------------------------------------------------------------ the loaders
SwappedColumns(df) == Series(Minus(iloc(df, 0), iloc(df, 1)))
\* durations = df.iloc[:, 1] - df.iloc[:, 0]; on object columns the
\* subtraction of two str raises
PairDurations(df) ==
    IF df.text THEN Raise("TypeError") ELSE Series(Minus(iloc(df, 1), iloc(df, 0)))

\* durations = df.iloc[:, 0]; durations.astype(float) raises on a cell that
\* is no number
ScalarDurations(df) ==
    IF df.text THEN Raise("ValueError") ELSE Series(iloc(df, 0))

MoreThanTwo(df) == df.width > 2
\* df.shape[1] >= 2
IsPairShape(df) == df.width >= 2

read_durations(files, filename) ==
    IF ~path_exists(files, filename) THEN None
    ELSE LET df == read_csv(files, filename, TRUE) IN
         IF df.kind = "raise" THEN df
         ELSE IF df_empty(df) THEN None
         ELSE IF IsPairShape(df) THEN PairDurations(df)
         ELSE ScalarDurations(df)

Latency(v) == [kind |-> "tuple", mean |-> mean(v), std |-> std(v)]

\* analysis.py: the first line is a header if it contains 'timestamp'
has_header(f) ==
    /\ f # << >>
    /\ f[1].hdr
    /\ \E j \in 1..Len(f[1].cols) : f[1].cols[j] \in TimestampNames

read_db_latency(files, filename) ==
    IF ~path_exists(files, filename) THEN None
    ELSE IF filename \notin DOMAIN files THEN Raise("FileNotFoundError")
    ELSE IF has_header(files[filename])
    THEN LET df == read_csv(files, filename, FALSE) IN
         IF df.kind = "raise" THEN df
         ELSE IF df_empty(df) THEN None
         ELSE IF ~HasColumn(df, "enrich_xai_analysis_timestamp") THEN Raise("KeyError")
         ELSE IF ~HasColumn(df, "start_timestamp") THEN Raise("KeyError")
         ELSE IF df.text THEN Raise("TypeError")
         ELSE Latency(Times1000(Minus(
                 iloc(df, ColIndex(df, "enrich_xai_analysis_timestamp") - 1),
                 iloc(df, ColIndex(df, "start_timestamp") - 1))))
    ELSE LET df == read_csv(files, filename, TRUE) IN
         IF df.kind = "raise" THEN df
         ELSE IF df_empty(df) \/ df.width < 2 THEN None
         ELSE IF df.text THEN Raise("TypeError")
         ELSE Latency(Times1000(Minus(iloc(df, 1), iloc(df, 0))))

\* archive/analysis.py: two columns [start, end], no header expected
read_db_latency_archive(files, filename) ==
    IF ~path_exists(files, filename) THEN None
    ELSE LET df == read_csv(files, filename, TRUE) IN
         IF df.kind = "raise" THEN df
         ELSE IF df_empty(df) \/ df.width < 2 THEN None
         ELSE IF df.text THEN Raise("TypeError")
         ELSE Latency(Times1000(Minus(iloc(df, 1), iloc(df, 0))))

\* ------------------------------------------------------ the results roots
\* REST_DIR, MCP_DIR, REST_MCP_DIR (LAYERED_MCP_DIR in the archived script),
\* DB_DIR
ArmSet == {"rest", "mcp", "rest_mcp", "db"}
Scripts == {"analysis", "archive", "plot"}
\* analysis.py and its archived version compare the four arms for both
\* operations; plot.py reads get_modelcard.csv of REST and MCP
ArmsRead(s) == IF s = "plot" THEN {"rest", "mcp"} ELSE ArmSet
OpsRead(s) == IF s = "plot" THEN {Ops[1]} ELSE OpSet

\* what a root holds unless Init makes it deviate: the shapes the loaders of
\* the script are written for; the transports differ in how long their calls
\* take
BaseShape(s, arm) ==
    IF s = "plot" /\ arm \in ArmsRead(s) THEN "staged_total"
    ELSE IF arm = "db" /\ s # "archive" THEN "staged" ELSE "pair"
Offset(arm) ==
    CASE arm = "db" -> 0 [] arm = "rest" -> 1 [] arm = "mcp" -> 2
      [] arm = "rest_mcp" -> 3

\* one place where the roots differ from the complete, well-formed layout:
\* a root that does not exist, or an <op>.csv of another shape
Deviations(s) ==
    [arm : ArmsRead(s), what : OpsRead(s), shape : Shapes]
    \cup [arm : ArmsRead(s), what : {"root"}, shape : {"absent"}]
DeviationSets(s) ==
    UNION {{ {x[k] : k \in 1..m} : x \in [1..m -> Deviations(s)]} :
              m \in 0..MaxDeviations}

ShapeAt(s, arm, o, D) ==
    IF \E x \in D : x.arm = arm /\ x.what = o
    THEN (CHOOSE x \in D : x.arm = arm /\ x.what = o).shape
    ELSE BaseShape(s, arm)

ArmFiles(s, arm, n, d, D) ==
    [o \in {x \in OpSet : ShapeAt(s, arm, x, D) # "absent"} |->
        FileOf(ShapeAt(s, arm, o, D), n, d + Offset(arm))]

NoDir == << >>
RootPath == << >>
FlatEntries == {e \in ForeignEntries : ~IsRunDir(e)}
RunEntries == ForeignEntries \cup {[name |-> run_dir(3), is_dir |-> TRUE]}

\* the database results are read from DB_DIR itself; the Runners' roots hold
\* the files in their newest run directory or, in the flat layout, directly
RootOf(s, arm, layout, n, d, D) ==
    IF \E x \in D : x.arm = arm /\ x.what = "root"
    THEN [exists |-> FALSE, listing |-> {}, dirs |-> NoDir]
    ELSE IF layout = "flat" \/ arm = "db"
    THEN [exists |-> TRUE, listing |-> FlatEntries,
          dirs |-> (RootPath :> ArmFiles(s, arm, n, d, D))]
    ELSE [exists |-> TRUE, listing |-> RunEntries,
          dirs |-> (RootPath :> NoDir) @@ (run_dir(3) :> NoDir)
                   @@ (run_dir(7) :> ArmFiles(s, arm, n, d, D))]

\* the files of the directory a path names
Dir(root, sel) ==
    IF ~root.exists THEN NoDir
    ELSE root.dirs[IF sel.kind = "run" THEN sel.name ELSE RootPath]

NotProcessed == [kind |-> "not processed"]
AggFresh ==
    /\ apc = "start"
    /\ run_of = [a \in ArmSet |-> NoSelection]
    /\ console = << >>
    /\ charts = {}
    /\ stats = [o \in OpSet |-> NotProcessed]
    /\ exc = "none"

AggInit ==
    /\ cfg = IdleConfig
    /\ RunnerFresh
    /\ RootIdle
    /\ VizIdle
    /\ script \in Scripts
    /\ \E layout \in {"flat", "runs"}, n \in 1..MaxRuns, D \in DeviationSets(script) :
          fs = [a \in ArmSet |-> RootOf(script, a, layout, n, MaxDelay, D)]
    /\ AggFresh
    /\ past = << >>

\* ------------------------------------------------------ process_operation
Raises(r) == r.kind = "raise"
IsNone(r) == r.kind = "None"

MissingRestOnly(rest_data, mcp_data, rest_mcp_data) == IsNone(rest_data)
\* rest_data is None or mcp_data is None or rest_mcp_data is None
MissingArm(rest_data, mcp_data, rest_mcp_data) ==
    IsNone(rest_data) \/ IsNone(mcp_data) \/ IsNone(rest_mcp_data)

\* rest_data * 1000.0: None cannot be multiplied
ToMs(data) ==
    IF data.kind = "Series" THEN Series(Times1000(data.values))
    ELSE Raise("TypeError")

ArmStats(data) ==
    IF data.kind = "Series" THEN Latency(ToMs(data).values) ELSE None
process_partial(s, operation_name, rest_run, mcp_run, rest_mcp_run, db_run) ==
    LET rest_data == read_durations(rest_run, operation_name)
        mcp_data == read_durations(mcp_run, operation_name)
        rest_mcp_data == read_durations(rest_mcp_run, operation_name)
        db_latency == IF s = "archive"
                      THEN read_db_latency_archive(db_run, operation_name)
                      ELSE read_db_latency(db_run, operation_name)
    IN  IF Raises(rest_data) THEN rest_data
        ELSE IF Raises(mcp_data) THEN mcp_data
        ELSE IF Raises(rest_mcp_data) THEN rest_mcp_data
        ELSE IF Raises(db_latency) THEN db_latency
        ELSE [kind |-> "stats", rest |-> ArmStats(rest_data),
              mcp |-> ArmStats(mcp_data), rest_mcp |-> ArmStats(rest_mcp_data),
              db |-> db_latency]

\* the four loads in the order the code makes them, then the checks for
\* missing data, then the statistics in milliseconds
process_operation(s, operation_name, rest_run, mcp_run, rest_mcp_run, db_run) ==
    LET rest_data == read_durations(rest_run, operation_name)
        mcp_data == read_durations(mcp_run, operation_name)
        rest_mcp_data == read_durations(rest_mcp_run, operation_name)
        db_latency == IF s = "archive"
                      THEN read_db_latency_archive(db_run, operation_name)
                      ELSE read_db_latency(db_run, operation_name)
    IN  IF Raises(rest_data) THEN rest_data
        ELSE IF Raises(mcp_data) THEN mcp_data
        ELSE IF Raises(rest_mcp_data) THEN rest_mcp_data
        ELSE IF Raises(db_latency) THEN db_latency
        ELSE IF MissingArm(rest_data, mcp_data, rest_mcp_data)
        THEN [kind |-> "missing", where |-> "REST, MCP, or REST+MCP"]
        ELSE IF IsNone(db_latency)
        THEN [kind |-> "missing", where |-> "DB"]
        ELSE IF \/ Raises(ToMs(rest_data)) \/ Raises(ToMs(mcp_data))
                \/ Raises(ToMs(rest_mcp_data))
        THEN Raise("TypeError")
        ELSE [kind |-> "stats",
              rest |-> Latency(ToMs(rest_data).values),
              mcp |-> Latency(ToMs(mcp_data).values),
              rest_mcp |-> Latency(ToMs(rest_mcp_data).values),
              db |-> db_latency]

\* print(...)
Line(msg, about) == [msg |-> msg, about |-> about]
savefig_truncates(f) ==
    [a \in DOMAIN f |-> [f[a] EXCEPT !.dirs = [p \in DOMAIN @ |-> NoDir]]]
\* fig.savefig(OUTPUT_DIR / ...), plt.savefig('.../analysis/outputs/...'):
\* a chart is written to the output directory; the results roots, given
\* here, are left as they are
savefig(f) == f

\* out_path of the chart of one operation (analysis.py)
ChartOf(operation_name) == <<"latency", operation_name, "comparison.png">>
CombinedChart == <<"latency", "comparison.png">>

\* ------------------------------------------------------------------ main()
SelectionOrder ==
    IF script = "plot" THEN <<"rest", "mcp">> ELSE <<"rest", "mcp", "rest_mcp">>
Selected == {SelectionOrder[k] : k \in 1..Len(SelectionOrder)}
Selection(a) == latest_run_dir(fs[a].exists, fs[a].listing)
MissingRoots ==
    {k \in 1..Len(SelectionOrder) :
        Selection(SelectionOrder[k]).kind = "FileNotFoundError"}
FirstMissing == CHOOSE k \in MissingRoots : \A j \in MissingRoots : k <= j

\* plot.py: find_latest_run_directory is called outside any try
Propagates == "FileNotFoundError"
Uncaught == "FileNotFoundError"
\* except FileNotFoundError as e: print(...); return
Caught == "none"

\* the latest_run_dir calls of main(), in analysis.py inside try; DB_DIR is
\* passed on as it is
AggSelectRuns ==
    /\ apc = "start"
    /\ IF MissingRoots # {}
       THEN /\ exc' = IF script = "plot" THEN Propagates ELSE Caught
            /\ console' = IF exc' = "none"
                          THEN Append(console, Line("Missing results directory",
                                                    SelectionOrder[FirstMissing]))
                          ELSE console
            /\ apc' = "exit"
            /\ UNCHANGED run_of
       ELSE /\ run_of' = [a \in ArmSet |->
                            IF a \in Selected THEN Selection(a)
                            ELSE IF a = "db" /\ script # "plot" THEN [kind |-> "root"]
                            ELSE NoSelection]
            /\ apc' = IF script = "plot" THEN "gantt_rest" ELSE Ops[1]
            /\ UNCHANGED <<console, exc>>
    /\ UNCHANGED <<runnerVars, tpVars, rootVars, vizVars, script, fs, charts, stats, past>>

AfterOperation(o) ==
    IF o = Ops[1] THEN Ops[2]
    ELSE IF script = "archive" THEN "combined" ELSE "exit"

\* process_operation(...) called from main(): an exception it raises leaves
\* main(); analysis.py draws the chart of the operation before it prints
AggProcessOperation ==
    /\ apc \in OpSet
    /\ LET r == process_operation(script, apc,
                    Dir(fs["rest"], run_of["rest"]), Dir(fs["mcp"], run_of["mcp"]),
                    Dir(fs["rest_mcp"], run_of["rest_mcp"]),
                    Dir(fs["db"], run_of["db"]))
       IN  /\ stats' = [stats EXCEPT ![apc] = r]
           /\ exc' = IF Raises(r) THEN r.exc ELSE exc
           /\ apc' = IF Raises(r) THEN "exit" ELSE AfterOperation(apc)
           /\ console' = CASE r.kind = "missing" ->
                                Append(console, Line("Missing " \o r.where, apc))
                           [] r.kind = "stats" ->
                                Append(console, Line("Results", apc))
                           [] OTHER -> console
           /\ charts' = IF r.kind = "stats" /\ script = "analysis"
                        THEN charts \cup {ChartOf(apc)} ELSE charts
    /\ fs' = IF charts' # charts THEN savefig(fs) ELSE fs
    /\ UNCHANGED <<runnerVars, tpVars, rootVars, vizVars, script, run_of, past>>

\* archive/analysis.py: if get_data and search_data: one chart of both
AggCombinedPlot ==
    /\ apc = "combined"
    /\ IF \A o \in OpSet : stats[o].kind = "stats"
       THEN /\ charts' = charts \cup {CombinedChart}
            /\ console' = Append(console, Line("Generated combined plot", "both"))
       ELSE UNCHANGED <<charts, console>>
    /\ apc' = "exit"
    /\ fs' = IF charts' # charts THEN savefig(fs) ELSE fs
    /\ UNCHANGED <<runnerVars, tpVars, rootVars, vizVars, script, run_of, stats, exc,
                   past>>

\* main() is left; the script may be invoked again on the same roots
AggExit ==
    /\ apc = "exit"
    /\ past' = Append(past, [stats |-> stats, console |-> console,
                             charts |-> charts, exc |-> exc, run_of |-> run_of])
    /\ apc' = "done"
    /\ UNCHANGED <<runnerVars, tpVars, rootVars, vizVars, script, fs, run_of, console,
                   charts, stats, exc>>

AggInvoke ==
    /\ apc = "done"
    /\ Len(past) < MaxAggRuns
    /\ apc' = "start"
    /\ run_of' = [a \in ArmSet |-> NoSelection]
    /\ console' = << >>
    /\ charts' = {}
    /\ stats' = [o \in OpSet |-> NotProcessed]
    /\ exc' = "none"
    /\ UNCHANGED <<runnerVars, tpVars, rootVars, vizVars, script, fs, past>>

\* ------------------------------------------------------------- plot.py
\* pd.read_csv(csv_file); df.mean(); mean_timestamps[<stage column>]
create_gantt_chart(files, filename) ==
    IF ~path_exists(files, filename) THEN [kind |-> "warning"]
    ELSE LET df == read_csv(files, filename, FALSE) IN
         IF df.kind = "raise" THEN df
         ELSE IF \E j \in 1..Len(staged_headers) : ~HasColumn(df, staged_headers[j])
         THEN Raise("KeyError")
         ELSE [kind |-> "chart"]

compute_query_and_overhead(files, filename) ==
    IF ~path_exists(files, filename) THEN None
    ELSE LET df == read_csv(files, filename, FALSE) IN
         IF df.kind = "raise" THEN df
         ELSE IF \E j \in 1..Len(staged_total_headers) :
                    ~HasColumn(df, staged_total_headers[j])
         THEN Raise("KeyError")
         ELSE [kind |-> "values"]

GanttArm == IF apc = "gantt_rest" THEN "rest" ELSE "mcp"
\* the file plot.py reads from the run of an arm
PlotFiles(a) == Dir(fs[a], run_of[a])

\* create_gantt_chart(rest_csv, "REST"); create_gantt_chart(mcp_csv, "MCP")
AggGanttChart ==
    /\ apc \in {"gantt_rest", "gantt_mcp"}
    /\ LET r == create_gantt_chart(PlotFiles(GanttArm), Ops[1]) IN
        /\ exc' = IF Raises(r) THEN r.exc ELSE exc
        /\ apc' = IF Raises(r) THEN "exit"
                  ELSE IF apc = "gantt_rest" THEN "gantt_mcp"
                  ELSE "query_vs_overhead"
        /\ console' = CASE r.kind = "warning" ->
                             Append(console, Line("Warning: File does not exist",
                                                  GanttArm))
                        [] r.kind = "chart" ->
                             Append(console, Line("Plot saved", GanttArm))
                        [] OTHER -> console
        /\ charts' = IF r.kind = "chart" THEN charts \cup {<<"gantt", GanttArm>>}
                     ELSE charts
    /\ fs' = IF charts' # charts THEN savefig(fs) ELSE fs
    /\ UNCHANGED <<runnerVars, tpVars, rootVars, vizVars, script, run_of, stats, past>>

\* create_query_vs_overhead_chart(rest_csv, mcp_csv)
AggQueryVsOverhead ==
    /\ apc = "query_vs_overhead"
    /\ LET rest_vals == compute_query_and_overhead(PlotFiles("rest"), Ops[1])
           mcp_vals == compute_query_and_overhead(PlotFiles("mcp"), Ops[1])
       IN  /\ exc' = IF Raises(rest_vals) THEN rest_vals.exc
                     ELSE IF Raises(mcp_vals) THEN mcp_vals.exc ELSE exc
           /\ IF Raises(rest_vals) \/ Raises(mcp_vals)
              THEN UNCHANGED <<console, charts>>
              ELSE IF IsNone(rest_vals) /\ IsNone(mcp_vals)
              THEN /\ console' = Append(console, Line("Warning: No data available",
                                                      "query_vs_overhead"))
                   /\ UNCHANGED charts
              ELSE /\ charts' = charts \cup {<<"query_vs_overhead.png">>}
                   /\ console' = Append(console, Line("Plot saved",
                                                      "query_vs_overhead"))
    /\ apc' = "exit"
    /\ fs' = IF charts' # charts THEN savefig(fs) ELSE fs
    /\ UNCHANGED <<runnerVars, tpVars, rootVars, vizVars, script, run_of, stats, past>>

AggNext ==
    \/ AggSelectRuns
    \/ AggProcessOperation
    \/ AggCombinedPlot
    \/ AggGanttChart
    \/ AggQueryVsOverhead
    \/ AggExit
    \/ AggInvoke

SpecAgg == AggInit /\ [][AggNext]_vars

\* ------------------------------------------------- claims on the Aggregator
Transports == {"rest", "mcp", "rest_mcp"}
\* the directory the script reads the files of an arm from
PathOf(a) == IF a = "db" THEN [kind |-> "root"] ELSE Selection(a)
FilesOf(a) == Dir(fs[a], PathOf(a))
Present(a, o) == o \in DOMAIN FilesOf(a)
\* the loader the script applies to the file of an arm
Load(a, o) ==
    IF a # "db" THEN read_durations(FilesOf(a), o)
    ELSE IF script = "archive" THEN read_db_latency_archive(FilesOf(a), o)
    ELSE read_db_latency(FilesOf(a), o)
RunDirNamesOf(a) == {e.name : e \in {x \in fs[a].listing : IsRunDir(x)}}
Ended == apc = "done"
Printed(msg, about) ==
    \E k \in 1..Len(console) : console[k] = Line(msg, about)

\* C11: on an existing root with no sub-directory named run_* latest_run_dir
\* returns the root itself, whatever else the root holds; on a root that
\* does not exist it raises FileNotFoundError and returns no path.
C11_FallbackOrNotFound ==
    \A a \in Transports :
        /\ (fs[a].exists /\ RunDirNamesOf(a) = {}) =>
              /\ Selection(a) = [kind |-> "root"]
              /\ run_of[a] \in {NoSelection, [kind |-> "root"]}
        /\ ~fs[a].exists =>
              /\ Selection(a) = [kind |-> "FileNotFoundError"]
              /\ run_of[a] = NoSelection
        /\ (apc \in OpSet /\ fs[a].exists /\ RunDirNamesOf(a) = {}) =>
              run_of[a] = [kind |-> "root"]
C11_Witness ==
    /\ apc \in OpSet
    /\ run_of["rest"] = [kind |-> "root"]
    /\ \E e \in fs["rest"].listing : ~e.is_dir /\ startswith(e.name, RunPrefix)
    /\ \E e \in fs["rest"].listing : e.is_dir

\* the durations of the rows of a file of numbers, row by row
Expected(f) ==
    [k \in 1..Len(f) |-> IF Len(f[k].cols) >= 2 THEN f[k].cols[2] - f[k].cols[1]
                         ELSE f[k].cols[1]]
Numeric(f) == f # << >> /\ \A k \in 1..Len(f) : ~f[k].hdr

\* C12: read_durations detects the record shape by the column count: from a
\* file of numbers with two or more columns it returns column[1] - column[0]
\* of every row, from one with exactly one column the value of every row; one
\* duration per data row, and these are the values the summary is made of.
C12_ShapeByColumnCount ==
    /\ \A a \in Transports, o \in OpSet :
          (Present(a, o) /\ Numeric(FilesOf(a)[o])) =>
              /\ Load(a, o) = Series(Expected(FilesOf(a)[o]))
              /\ Len(Load(a, o).values) = Len(DataRows(FilesOf(a)[o]))
    /\ \A o \in OpSet : stats[o].kind = "stats" =>
          \A a \in Transports :
              stats[o][a] = Latency(Times1000(Expected(FilesOf(a)[o])))
C12_Witness ==
    \E o \in OpSet :
        /\ stats[o].kind = "stats"
        /\ Len(FilesOf("rest")[o][1].cols) = 1
        /\ Len(FilesOf("mcp")[o][1].cols) = 2
        /\ Len(FilesOf("mcp")[o]) = MaxRuns
        /\ stats[o]["rest"] # stats[o]["mcp"]

\* ------------------------------------------ claims on Runner and Aggregator
\* the run directory of the invocation of Spec, as the Aggregator finds it
RunDirFiles == [o \in {x \in OpSet : disk[x] # << >>} |-> disk[o]]

\* C13: every row a Runner wrote in the two-column (start, end) format has
\* start read before the call and end after its return: the duration
\* read_durations computes for the row is end - start, it is the time the
\* call took, it is >= 0, and a row starts no earlier than the one before
\* it ended.
C13_RoundTrip ==
    cfg.variant \in {"mcp", "rest_mcp"} =>
        \A o \in DOMAIN RunDirFiles :
            LET r == read_durations(RunDirFiles, o) IN
            /\ r.kind = "Series"
            /\ Len(r.values) = Len(disk[o])
            /\ \A k \in 1..Len(disk[o]) :
                  /\ r.values[k] = disk[o][k].cols[2] - disk[o][k].cols[1]
                  /\ r.values[k] = cfg.d
                  /\ r.values[k] >= 0
                  /\ k > 1 => disk[o][k - 1].cols[2] <= disk[o][k].cols[1]
C13_Witness ==
    /\ cfg.variant = "rest_mcp" /\ cfg.d = MaxDelay /\ cfg.runs = MaxRuns
    /\ Len(disk[Ops[2]]) = MaxRuns
    /\ read_durations(RunDirFiles, Ops[2]).values[MaxRuns] = MaxDelay

\* ------------------------------------------------- claims on the Aggregator
\* C14: an <op>.csv that does not exist in the directory it is read from
\* yields None from read_durations and from read_db_latency, not an error;
\* process_operation then reports the operation as missing, unless the load
\* of another file raised.
C14_AbsentIsNoData ==
    /\ \A a \in ArmSet, o \in OpSet : ~Present(a, o) =>
          /\ Load(a, o) = None
          /\ read_durations(FilesOf(a), o) = None
          /\ read_db_latency(FilesOf(a), o) = None
          /\ read_db_latency_archive(FilesOf(a), o) = None
    /\ \A o \in OpSet :
          (/\ stats[o] # NotProcessed
           /\ \E a \in ArmSet : ~Present(a, o)
           /\ \A a \in ArmSet : ~Raises(Load(a, o))) =>
              /\ stats[o].kind = "missing"
              /\ Printed("Missing " \o stats[o].where, o)
C14_Witness ==
    /\ Ended
    /\ ~Present("db", Ops[1]) /\ fs["db"].exists
    /\ stats[Ops[1]] = [kind |-> "missing", where |-> "DB"]
    /\ stats[Ops[2]].kind = "stats"
    /\ exc = "none"

\* an empty CSV, a first line that is a header where rows of numbers are
\* expected, a column count or column set other than the loader's
Malformed(a, f) ==
    \/ f = << >>
    \/ a # "db" /\ f[1].hdr
    \/ a = "db" /\ (Len(f[1].cols) < 2 \/ (f[1].hdr /\ f[1].cols # staged_headers))

\* C15 as stated: a malformed input file is treated by the loaders as "no
\* data" (None), and no parse or conversion error ever leaves the Aggregator.
C15_MalformedIsNoData ==
    /\ \A o \in OpSet : stats[o] # NotProcessed =>
          /\ stats[o].kind # "raise"
          /\ \A a \in ArmSet :
                (Present(a, o) /\ Malformed(a, FilesOf(a)[o])) => Load(a, o) = None
    /\ exc = "none"

\* the file is there and the loader returns its data
Loaded(a, o) == Load(a, o).kind \in {"Series", "tuple"}
\* search_modelcards.csv is absent from the run of one arm, every
\* get_modelcard.csv is there with data, and so is every other
\* search_modelcards.csv
OnlySearchMissing ==
    /\ script \in {"analysis", "archive"}
    /\ \E a \in ArmSet : ~Present(a, Ops[2])
    /\ \A a \in ArmSet : Loaded(a, Ops[1])
    /\ \A a \in ArmSet : Present(a, Ops[2]) => Loaded(a, Ops[2])

\* C16 as stated: with search_modelcards.csv absent from one transport's run
\* and every get_modelcard.csv present, the Aggregator does not raise, skips
\* search_modelcards with a diagnostic and still produces the summary and the
\* plot for get_modelcard.
C16_GetStillPlotted ==
    (Ended /\ OnlySearchMissing) =>
        /\ exc = "none"
        /\ stats[Ops[2]].kind = "missing"
        /\ Printed("Missing " \o stats[Ops[2]].where, Ops[2])
        /\ stats[Ops[1]].kind = "stats" /\ Printed("Results", Ops[1])
        /\ \E c \in charts : c \in {ChartOf(Ops[1]), CombinedChart}

\* C16 (amended): in that case neither script raises, both skip
\* search_modelcards with a diagnostic and print the summary of
\* get_modelcard; analysis.py also writes the chart of get_modelcard, the
\* archived script, whose one chart shows both operations, writes none.
C16_GetStillSummarised ==
    (Ended /\ OnlySearchMissing) =>
        /\ exc = "none"
        /\ stats[Ops[2]].kind = "missing"
        /\ Printed("Missing " \o stats[Ops[2]].where, Ops[2])
        /\ ~Printed("Results", Ops[2])
        /\ stats[Ops[1]].kind = "stats" /\ Printed("Results", Ops[1])
        /\ \A a \in Transports :
              stats[Ops[1]][a] = Latency(Times1000(Expected(FilesOf(a)[Ops[1]])))
        /\ charts = IF script = "analysis" THEN {ChartOf(Ops[1])} ELSE {}
C16_Witness ==
    /\ Ended /\ OnlySearchMissing
    /\ script = "archive"
    /\ ~Present("mcp", Ops[2])
    /\ stats[Ops[1]].kind = "stats"
    /\ charts = {}

\* the CSV of operation o is absent from the run of exactly one arm and
\* there with data in the others
OneArmMissing(o) ==
    /\ script \in {"analysis", "archive"}
    /\ \E a \in ArmSet : ~Present(a, o) /\ \A b \in ArmSet \ {a} : Loaded(b, o)
Drawn(o) ==
    \/ ChartOf(o) \in charts
    \/ CombinedChart \in charts

\* C17 as stated: when one transport's CSV for an operation is absent and
\* the others are present, only that arm is omitted, with a diagnostic, and
\* the comparison of the remaining transports is still produced.
C17_ArmOmitted ==
    \A o \in OpSet :
        (Ended /\ stats[o] # NotProcessed /\ OneArmMissing(o)) =>
            /\ Printed("Missing DB", o) \/ Printed("Missing REST, MCP, or REST+MCP", o)
            /\ stats[o].kind = "stats"
            /\ Printed("Results", o)

\* C17 (amended): process_operation then skips the operation as a whole: it
\* prints its 'Missing ...' line, computes no statistics of the arms that
\* are present and draws nothing for the operation; the other operation is
\* processed as if nothing were missing.
C17_OperationSkipped ==
    \A o \in OpSet :
        (Ended /\ stats[o] # NotProcessed /\ OneArmMissing(o)) =>
            /\ stats[o] = [kind |-> "missing",
                           where |-> IF Present("db", o) THEN "REST, MCP, or REST+MCP"
                                     ELSE "DB"]
            /\ Printed("Missing " \o stats[o].where, o)
            /\ ~Printed("Results", o)
            /\ ~Drawn(o)
            /\ \A p \in OpSet \ {o} :
                  (\A a \in ArmSet : Loaded(a, p)) =>
                      /\ stats[p].kind = "stats" /\ Printed("Results", p)
                      /\ script = "analysis" => ChartOf(p) \in charts
C17_Witness ==
    /\ Ended /\ OneArmMissing(Ops[1]) /\ ~Present("mcp", Ops[1])
    /\ Loaded("rest", Ops[1]) /\ Loaded("rest_mcp", Ops[1]) /\ Loaded("db", Ops[1])
    /\ stats[Ops[1]].kind = "missing"
    /\ stats[Ops[2]].kind = "stats"
    /\ script = "analysis" /\ charts = {ChartOf(Ops[2])}

\* ------------------------------------------------------------------- C18
\* C18 (as stated): when the results root of a transport the script selects
\* a run from does not exist, the invocation prints the missing directory,
\* processes no operation, writes no chart and ends without an exception.
C18_ReportsAndReturns ==
    (Ended /\ \E a \in Selected : ~fs[a].exists) =>
        /\ Printed("Missing results directory", SelectionOrder[FirstMissing])
        /\ \A o \in OpSet : stats[o] = NotProcessed
        /\ charts = {}
        /\ exc = "none"

\* C18 (amended): with such a root missing no run is selected, no operation
\* is processed and no chart is written; analysis.py (both versions) prints
\* the first missing directory and returns, plot.py ends by the
\* FileNotFoundError of find_latest_run_directory and prints nothing itself.
C18_StopsBeforeAnyWork ==
    (\E a \in Selected : ~fs[a].exists) =>
        /\ run_of = [a \in ArmSet |-> NoSelection]
        /\ \A o \in OpSet : stats[o] = NotProcessed
        /\ charts = {}
        /\ Ended =>
              IF script = "plot"
              THEN exc = "FileNotFoundError" /\ console = << >>
              ELSE /\ exc = "none"
                   /\ console = <<Line("Missing results directory",
                                       SelectionOrder[FirstMissing])>>
C18_Witness ==
    /\ Ended /\ script = "analysis"
    /\ fs["rest"].exists /\ ~fs["mcp"].exists
    /\ console = <<Line("Missing results directory", "mcp")>>
    /\ exc = "none" /\ charts = {}

\* ------------------------------------------------------------------- C19
\* the stages whose code is reached in a measurement that fails at failAt
UpTo(failAt, is_https) ==
    {s \in 1..failAt : Executes(s, is_https)}
\* every measurement that fails, at any stage, for any scheme and delay
EveryAbort ==
    \A failAt \in 1..Len(Stages), d \in 0..MaxDelay, is_https \in BOOLEAN :
        Executes(failAt, is_https) =>
           LET m == try_block(NotMeasured, 1, failAt, d, is_https)
               r == measure_detailed_latency(failAt, d, is_https)
           IN  /\ m.called = UpTo(failAt, is_https)
               /\ m.returned = m.called \ {failAt}
               /\ \A s \in 1..Len(Stages) :
                     r.stages[s] = IF s \in m.returned THEN d ELSE 0
               /\ r.server_processing = 0
               /\ r.total_time = d * Cardinality(m.called)
               /\ m.sock = IF StageNo("socket_creation") \in m.returned
                           THEN "closed" ELSE "none"
\* what a measurement can report for a scheme and a delay
Reports ==
    [is_https \in BOOLEAN, d \in 0..MaxDelay |->
        {measure_detailed_latency(failAt, d, is_https) :
            failAt \in {f \in 0..Len(Stages) : f # 0 => Executes(f, is_https)}}]
\* the report of a measurement in which no stage raises
Complete ==
    [is_https \in BOOLEAN, d \in 0..MaxDelay |->
        measure_detailed_latency(0, d, is_https)]
\* C19: when a stage of measure_detailed_latency raises, no later stage is
\* executed, the failing stage and every stage after it are reported as 0
\* (server_processing too), every stage that completed before keeps the time
\* it measured, total_time is the time of the stages reached, and a socket
\* that was created is closed when the function returns; in the rest Runner
\* every reported measurement is such a result and no socket stays open.
C19_AbortKeepsReached ==
    /\ EveryAbort
    /\ cfg.variant = "rest" =>
          /\ hist.socks_open = 0
          /\ hist.issued > 0 => detailed_latency \in Reports[cfg.is_https, cfg.d]
          /\ hist.raised = 0 /\ hist.issued > 0 =>
                /\ detailed_latency = Complete[cfg.is_https, cfg.d]
                /\ \A s \in 1..Len(Stages) :
                      detailed_latency.stages[s] =
                          IF Executes(s, cfg.is_https) THEN cfg.d ELSE 0
\* a measurement of a plain-http target failed at request_send: DNS, socket
\* creation and connect report their time, everything from the send on is 0,
\* four calls were made and the socket that was created is closed
C19_Witness ==
    /\ cfg.variant = "rest" /\ ~cfg.is_https /\ cfg.d = MaxDelay
    /\ pc = "open" /\ hist.raised = 1 /\ hist.socks_created = 1
    /\ hist.connected = 1 /\ hist.socks_open = 0
    /\ detailed_latency = measure_detailed_latency(StageNo("request_send"),
                                                   cfg.d, cfg.is_https)
    /\ detailed_latency.stages[StageNo("tcp_connect")] = MaxDelay
    /\ detailed_latency.stages[StageNo("request_send")] = 0
    /\ detailed_latency.stages[StageNo("socket_close")] = 0
    /\ detailed_latency.total_time = 4 * MaxDelay

WritesHeader == cfg.variant \in {"layered_mcp", "rest"}
\* C21: when a Runner that writes a header row (layered_mcp, rest) ran to its
\* end with N runs and no call failed, each operation's CSV holds exactly
\* N + 1 lines: the header line of the Runner first, then N data rows.
C21_HeaderPlusNRows ==
    (WritesHeader /\ pc = "done" /\ hist.raised = 0) =>
        \A o \in OpSet :
            /\ Len(disk[o]) = cfg.runs + 1
            /\ disk[o][1] = HeaderLine(HeaderOf(cfg.variant))
            /\ \A k \in 2..Len(disk[o]) :
                  /\ ~disk[o][k].hdr
                  /\ Len(disk[o][k].cols) = Len(HeaderOf(cfg.variant))
C21_Witness ==
    /\ cfg.variant = "layered_mcp" /\ cfg.runs = MaxRuns
    /\ pc = "done" /\ hist.raised = 0 /\ hist.ok = 2 * MaxRuns
    /\ \A o \in OpSet : Len(disk[o]) = MaxRuns + 1 /\ disk[o][1].hdr

\* ================================================================== SpecViz
Tools == {"timestamps_gantt", "plot_gantt", "visualize", "stacked"}

\* ------------------------------------------------- timestamps_gantt.py
REQUIRED_COLUMNS ==
    <<"start_timestamp", "base_model_card_timestamp",
      "remove_embedding_timestamp", "enrich_ai_model_timestamp",
      "enrich_bias_analysis_timestamp", "enrich_xai_analysis_timestamp">>
stage_labels_all ==
    <<"Base Model Card", "Remove Embedding", "AI Model", "Bias Analysis",
      "XAI Analysis">>
Flags == {"--exclude-overhead", "--include-overhead", "--exclude-embedding",
          "--include-embedding"}

\* add_argument(flag, action="store_true", default=...): the flag sets the
\* value to True, without the flag it is the default
store_true(args, flag, default) == IF flag \in args THEN TRUE ELSE default
\* parser.parse_args()
parse_args(args) ==
    [exclude_overhead |-> store_true(args, "--exclude-overhead", TRUE),
     include_overhead |-> store_true(args, "--include-overhead", FALSE),
     exclude_embedding |-> store_true(args, "--exclude-embedding", TRUE),
     include_embedding |-> store_true(args, "--include-embedding", FALSE)]

\* include_overhead = args.include_overhead and not args.exclude_overhead
include_overhead_of(a) == a.include_overhead /\ ~a.exclude_overhead
\* exclude_embedding = args.exclude_embedding and not args.include_embedding
exclude_embedding_of(a) == a.exclude_embedding /\ ~a.include_embedding

durations_from_start(timestamps) ==
    [k \in 1..(Len(timestamps) - 1) |-> (timestamps[k + 1] - timestamps[1]) * 1000]
\* (timestamps[i + 1] - timestamps[i]) * 1000.0 for i in range(len - 1)
durations_ms_all(timestamps) ==
    [k \in 1..(Len(timestamps) - 1) |-> (timestamps[k + 1] - timestamps[k]) * 1000]

\* for d in durations_ms: starts_ms.append(cumulative); cumulative += d
RECURSIVE Cumulative(_, _)
Cumulative(durations, cumulative) ==
    IF durations = << >> THEN << >>
    ELSE <<cumulative>> \o Cumulative(Tail(durations), cumulative + Head(durations))

compute_stage_starts_and_durations(timestamps, include_overhead, exclude_embedding) ==
    LET all == durations_ms_all(timestamps)
        every == [k \in 1..Len(all) |-> k]
        \* index 1 of the code is the second segment
        indices == IF exclude_embedding /\ Len(every) > 1
                   THEN SelectSeq(every, LAMBDA k : k # 2) ELSE every
        durations_ms == [k \in 1..Len(indices) |-> all[indices[k]]]
    IN  [starts_ms |-> Cumulative(durations_ms, 0),
         durations_ms |-> durations_ms,
         stage_labels |-> [k \in 1..Len(indices) |-> stage_labels_all[indices[k]]]]

\* plot_gantt: the last bar is orange when the overhead is included
colors(stage_labels, include_overhead) ==
    [k \in 1..Len(stage_labels) |->
        IF include_overhead /\ k = Len(stage_labels) THEN "orange" ELSE "skyblue"]
\* the default output name
suffix(include_overhead, exclude_embedding) ==
    <<IF include_overhead THEN "with_overhead" ELSE "no_overhead",
      IF ~exclude_embedding THEN "with_embed" ELSE "no_embed">>

\* ------------------------------------------------------ plot.py (Gantt)
processing_stages == <<"Base Model Card", "AI Model", "Bias Analysis", "XAI Analysis">>
\* stage_starts, stage_durations of create_gantt_chart
gantt_data(stage_timestamps) ==
    [starts_ms |-> [k \in 1..(Len(stage_timestamps) - 1) |->
                       (stage_timestamps[k] - stage_timestamps[1]) * 1000],
     durations_ms |-> durations_ms_all(stage_timestamps),
     stage_labels |-> processing_stages]

\* ---------------------------------------------------------- visualize.py
FrameKeys == {"rest_db", "rest_total", "mcp_db", "mcp_total", "layered_mcp_db",
              "layered_mcp_rest", "layered_mcp_total"}
\* 'total' in key and 'db' not in key
IsTotalKey(key) == key \in {"rest_total", "mcp_total", "layered_mcp_total"}
\* which frames convert_to_milliseconds multiplies by 1000.0
Converts(key) == IsTotalKey(key)
convert_to_milliseconds(data_dict) ==
    [key \in DOMAIN data_dict |->
        IF Converts(key) THEN Times1000(data_dict[key]) ELSE data_dict[key]]

\* a - b of two means given as fractions
FracMinus(a, b) == [num |-> a.num * b.den - b.num * a.den, den |-> a.den * b.den]
FracPlus(a, b) == [num |-> a.num * b.den + b.num * a.den, den |-> a.den * b.den]
FracEq(a, b) == a.num * b.den = b.num * a.den
FracTimes1000(a) == [num |-> a.num * 1000, den |-> a.den]

\* layered_mcp_net = layered_mcp_total - layered_mcp_rest
layered_net(total, db, rest) == FracMinus(total, rest)
calculate_metrics(data_dict) ==
    LET rest_total == mean(data_dict["rest_total"])
        rest_db == mean(data_dict["rest_db"])
        mcp_total == mean(data_dict["mcp_total"])
        mcp_db == mean(data_dict["mcp_db"])
        layered_mcp_total == mean(data_dict["layered_mcp_total"])
        layered_mcp_db == mean(data_dict["layered_mcp_db"])
        layered_mcp_rest == mean(data_dict["layered_mcp_rest"])
    IN  [rest |-> [total |-> rest_total, db |-> rest_db,
                   net |-> FracMinus(rest_total, rest_db)],
         native_mcp |-> [total |-> mcp_total, db |-> mcp_db,
                         net |-> FracMinus(mcp_total, mcp_db)],
         layered_mcp |-> [total |-> layered_mcp_total, db |-> layered_mcp_db,
                          rest |-> layered_mcp_rest,
                          net |-> layered_net(layered_mcp_total, layered_mcp_db,
                                              layered_mcp_rest)]]

\* plt.bar(x, height, bottom=...): the segments of each bar, bottom to top
Segment(label, bottom, height) == [label |-> label, bottom |-> bottom, height |-> height]
Zero == [num |-> 0, den |-> 1]
create_stacked_bar_plot(metrics) ==
    [rest |-> <<Segment("db", Zero, metrics.rest.db),
                Segment("net", metrics.rest.db, metrics.rest.net)>>,
     native_mcp |-> <<Segment("db", Zero, metrics.native_mcp.db),
                      Segment("net", metrics.native_mcp.db, metrics.native_mcp.net)>>,
     layered_mcp |-> <<Segment("db", Zero, metrics.layered_mcp.db),
                       Segment("rest", metrics.layered_mcp.db, metrics.layered_mcp.rest),
                       Segment("net", FracPlus(metrics.layered_mcp.db,
                                               metrics.layered_mcp.rest),
                               metrics.layered_mcp.net)>>]

\* ------------------------------ analysis.py plot_stacked_latency_comparison
\* np.sqrt: the integer part of the root and whether the root is that integer
np_sqrt(x) ==
    LET r == CHOOSE r \in 0..x : r * r <= x /\ x < (r + 1) * (r + 1)
    IN  [floor |-> r, exact |-> r * r = x]
sum_of_stds(a_std, b_std) == np_sqrt((a_std + b_std) * (a_std + b_std))
\* np.sqrt(a_std**2 + b_std**2)
root_sum_of_squares(a_std, b_std) == np_sqrt(a_std * a_std + b_std * b_std)
\* a bar drawn without combining: yerr=db_std_ms
Plain(a_std) == [floor |-> a_std, exact |-> TRUE]

\* ax.bar(x, height, bottom=..., yerr=...)
Bar(x, label, bottom, height, yerr) ==
    [x |-> x, label |-> label, bottom |-> bottom, height |-> height, yerr |-> yerr]
plot_stacked_latency_comparison(m) ==
    <<Bar("MCP", "Database", 0, m.db_mean_ms, Plain(m.db_std_ms)),
      Bar("MCP", "MCP overhead", m.db_mean_ms, m.mcp_mean_ms - m.db_mean_ms,
          root_sum_of_squares(m.mcp_std_ms, m.db_std_ms)),
      Bar("REST+MCP", "Database", 0, m.db_mean_ms, Plain(m.db_std_ms)),
      Bar("REST+MCP", "REST overhead", m.db_mean_ms, m.rest_mean_ms - m.db_mean_ms,
          root_sum_of_squares(m.rest_std_ms, m.db_std_ms)),
      Bar("REST+MCP", "MCP overhead", m.rest_mean_ms,
          m.rest_mcp_mean_ms - m.rest_mean_ms,
          root_sum_of_squares(m.rest_mcp_std_ms, m.rest_std_ms))>>

\* ------------------------------------------------------------------ inputs
\* rows of stage timestamps (seconds): each stamp differs from the one before
\* by -1 .. MaxStep
RECURSIVE StampRows(_)
StampRows(n) ==
    IF n = 1 THEN {<<MaxStep + 1>>}
    ELSE {Append(t, t[Len(t)] + s) : t \in StampRows(n - 1), s \in (-1)..MaxStep}
Chronological(t) == \A k \in 1..(Len(t) - 1) : t[k] <= t[k + 1]

\* the means of the four arms of a comparison, milliseconds
ArmMeans == [db_mean_ms |-> 10, rest_mean_ms |-> 25, mcp_mean_ms |-> 30,
             rest_mcp_mean_ms |-> 45]
StackedInputs ==
    {ArmMeans @@ s : s \in [{"db_std_ms", "rest_std_ms", "mcp_std_ms",
                             "rest_mcp_std_ms"} -> 0..MaxStd]}

NoViz == [step |-> "none"]
VizInit ==
    /\ RunnerFresh
    /\ RootIdle
    /\ AggIdle
    /\ cfg = IdleConfig
    /\ vpc = "start"
    /\ viz = NoViz
    /\ tool \in Tools
    /\ argv \in IF tool = "timestamps_gantt" THEN SUBSET Flags ELSE {{}}
    /\ frames \in CASE tool = "timestamps_gantt" -> StampRows(Len(REQUIRED_COLUMNS))
                    [] tool = "plot_gantt" -> StampRows(Len(staged_headers))
                    [] tool = "visualize" -> [FrameKeys -> {<<v>> : v \in 1..MaxSeconds}]
                    [] tool = "stacked" -> StackedInputs

\* ----------------------------------------------------------------- actions
\* timestamps_gantt main(): args = parser.parse_args(); frames is the row or
\* aggregate s the timestamps are taken from
VizParseArgs ==
    /\ tool = "timestamps_gantt" /\ vpc = "start"
    /\ viz' = [step |-> "args", args |-> parse_args(argv)]
    /\ vpc' = "compute"
    /\ UNCHANGED <<runnerVars, tpVars, rootVars, aggVars, tool, argv, frames>>

VizComputeStages ==
    /\ tool = "timestamps_gantt" /\ vpc = "compute"
    /\ LET include_overhead == include_overhead_of(viz.args)
           exclude_embedding == exclude_embedding_of(viz.args)
       IN  viz' = [step |-> "stages", args |-> viz.args,
                   include_overhead |-> include_overhead,
                   exclude_embedding |-> exclude_embedding,
                   stages |-> compute_stage_starts_and_durations(
                                  frames, include_overhead, exclude_embedding)]
    /\ vpc' = "plot"
    /\ UNCHANGED <<runnerVars, tpVars, rootVars, aggVars, tool, argv, frames>>

VizPlotGantt ==
    /\ tool = "timestamps_gantt" /\ vpc = "plot"
    /\ viz' = [step |-> "plot", args |-> viz.args,
               include_overhead |-> viz.include_overhead,
               exclude_embedding |-> viz.exclude_embedding,
               stages |-> viz.stages,
               colors |-> colors(viz.stages.stage_labels, viz.include_overhead),
               suffix |-> suffix(viz.include_overhead, viz.exclude_embedding)]
    /\ vpc' = "done"
    /\ UNCHANGED <<runnerVars, tpVars, rootVars, aggVars, tool, argv, frames>>

\* plot.py create_gantt_chart, from the mean timestamps on
VizGanttChart ==
    /\ tool = "plot_gantt" /\ vpc = "start"
    /\ viz' = [step |-> "plot", stages |-> gantt_data(frames)]
    /\ vpc' = "done"
    /\ UNCHANGED <<runnerVars, tpVars, rootVars, aggVars, tool, argv, frames>>

\* visualize.py main(): convert_to_milliseconds(data)
VizConvert ==
    /\ tool = "visualize" /\ vpc = "start"
    /\ viz' = [step |-> "converted", data |-> convert_to_milliseconds(frames)]
    /\ vpc' = "metrics"
    /\ UNCHANGED <<runnerVars, tpVars, rootVars, aggVars, tool, argv, frames>>

\* metrics = calculate_metrics(data)
VizMetrics ==
    /\ tool = "visualize" /\ vpc = "metrics"
    /\ viz' = [step |-> "metrics", data |-> viz.data,
               metrics |-> calculate_metrics(viz.data)]
    /\ vpc' = "bars"
    /\ UNCHANGED <<runnerVars, tpVars, rootVars, aggVars, tool, argv, frames>>

\* create_stacked_bar_plot(metrics, std, title, path)
VizStackedBars ==
    /\ tool = "visualize" /\ vpc = "bars"
    /\ viz' = [step |-> "plot", data |-> viz.data, metrics |-> viz.metrics,
               bars |-> create_stacked_bar_plot(viz.metrics)]
    /\ vpc' = "done"
    /\ UNCHANGED <<runnerVars, tpVars, rootVars, aggVars, tool, argv, frames>>

\* analysis.py plot_stacked_latency_comparison(...)
VizStackedLatency ==
    /\ tool = "stacked" /\ vpc = "start"
    /\ viz' = [step |-> "plot", bars |-> plot_stacked_latency_comparison(frames)]
    /\ vpc' = "done"
    /\ UNCHANGED <<runnerVars, tpVars, rootVars, aggVars, tool, argv, frames>>

VizNext ==
    \/ VizParseArgs
    \/ VizComputeStages
    \/ VizPlotGantt
    \/ VizGanttChart
    \/ VizConvert
    \/ VizMetrics
    \/ VizStackedBars
    \/ VizStackedLatency

SpecViz == VizInit /\ [][VizNext]_vars

\* =========================================================== claims, SpecViz
VizDone == vpc = "done"
GanttTool == tool \in {"timestamps_gantt", "plot_gantt"}
NoStageExcluded ==
    \/ tool = "plot_gantt"
    \/ tool = "timestamps_gantt" /\ "--include-embedding" \in argv

\* ------------------------------------------------------------------- C22
\* C22: for stage timestamps in chronological order and no stage excluded,
\* timestamps_gantt and plot.py give every stage the duration
\* (next timestamp - its timestamp) * 1000, all durations are >= 0, they sum
\* to (last - first timestamp) * 1000 and every stage starts at the sum of
\* the durations of the stages before it.
C22_ConsecutiveDifferences ==
    (GanttTool /\ VizDone /\ Chronological(frames) /\ NoStageExcluded) =>
        LET d == viz.stages.durations_ms
            s == viz.stages.starts_ms
        IN  /\ Len(d) = Len(frames) - 1 /\ Len(s) = Len(d)
            /\ Len(viz.stages.stage_labels) = Len(d)
            /\ \A k \in 1..Len(d) :
                  /\ d[k] = (frames[k + 1] - frames[k]) * 1000
                  /\ d[k] >= 0
                  /\ s[k] = SeriesSum(SubSeq(d, 1, k - 1))
            /\ SeriesSum(d) = (frames[Len(frames)] - frames[1]) * 1000
\* all six timestamps of timestamps_gantt kept, two stages of different
\* length and one of length 0
C22_Witness ==
    /\ tool = "timestamps_gantt" /\ VizDone /\ Chronological(frames)
    /\ argv = {"--include-embedding"}
    /\ viz.stages.durations_ms = <<1000, 0, 1000, 1000, 0>>
    /\ viz.stages.starts_ms = <<0, 1000, 1000, 2000, 3000>>

\* ------------------------------------------------------------------- C23
\* C23: every latency the Aggregator stacks is the recorded duration
\* (seconds) times 1000, once, for every arm and component: after
\* visualize.py converted its data, each frame holds 1000 times what was
\* loaded, and each mean of the breakdown is 1000 times the mean recorded.
C23_EveryComponentInMs ==
    (tool = "visualize" /\ viz.step \in {"converted", "metrics", "plot"}) =>
        /\ \A key \in FrameKeys : viz.data[key] = Times1000(frames[key])
        /\ viz.step \in {"metrics", "plot"} =>
              /\ FracEq(viz.metrics.rest.db, FracTimes1000(mean(frames["rest_db"])))
              /\ FracEq(viz.metrics.rest.total,
                        FracTimes1000(mean(frames["rest_total"])))

\* ------------------------------------------------------------------- C24
\* y is the square root of a^2 + b^2
IsRootOfSquares(y, a, b) ==
    /\ y.floor >= 0
    /\ y.floor * y.floor <= a * a + b * b
    /\ a * a + b * b < (y.floor + 1) * (y.floor + 1)
    /\ y.exact <=> y.floor * y.floor = a * a + b * b
\* C24: in the stacked comparison chart of analysis.py the error bar of every
\* overhead segment is sqrt(a_std^2 + b_std^2) of the standard deviations of
\* the two latencies the segment is the difference of; for 3 and 4 ms it is
\* exactly 5.
C24_RootSumOfSquares ==
    (tool = "stacked" /\ VizDone) =>
        /\ IsRootOfSquares(viz.bars[2].yerr, frames.mcp_std_ms, frames.db_std_ms)
        /\ IsRootOfSquares(viz.bars[4].yerr, frames.rest_std_ms, frames.db_std_ms)
        /\ IsRootOfSquares(viz.bars[5].yerr, frames.rest_mcp_std_ms, frames.rest_std_ms)
        /\ \A k \in {2, 4, 5} : viz.bars[k].label \in {"MCP overhead", "REST overhead"}
        /\ ({frames.mcp_std_ms, frames.db_std_ms} = {3, 4}) =>
              viz.bars[2].yerr = [floor |-> 5, exact |-> TRUE]
C24_Witness ==
    /\ tool = "stacked" /\ VizDone
    /\ frames.mcp_std_ms = 3 /\ frames.db_std_ms = 4
    /\ viz.bars[2].label = "MCP overhead"
    /\ viz.bars[2].yerr = [floor |-> 5, exact |-> TRUE]

\* ------------------------------------------------------------------- C25
\* C25: whenever --include-overhead is on the command line of
\* timestamps_gantt, the include_overhead value given to the stage
\* computation and to the plot is true.
C25_IncludeOverrides ==
    (tool = "timestamps_gantt" /\ "--include-overhead" \in argv
        /\ viz.step \in {"stages", "plot"}) =>
            /\ viz.include_overhead
            /\ viz.step = "plot" =>
                  /\ viz.colors[Len(viz.colors)] = "orange"
                  /\ viz.suffix[1] = "with_overhead"

\* ------------------------------------------------------------------- C29
\* the top of the bar: the heights of its segments added up
RECURSIVE StackHeight(_)
StackHeight(segments) ==
    IF segments = << >> THEN Zero
    ELSE FracPlus(Head(segments).height, StackHeight(Tail(segments)))
\* C29: in the breakdown visualize.py computes and draws, the segments of
\* each transport's bar add up to the mean total latency of that transport:
\* db + net = total for REST and native MCP, db + rest + net = total for
\* layered MCP.
C29_SegmentsSumToTotal ==
    (tool = "visualize" /\ VizDone) =>
        \A t \in {"rest", "native_mcp", "layered_mcp"} :
            FracEq(StackHeight(viz.bars[t]), viz.metrics[t].total)

\* ------------------------------------------------------------------- C26
\* The native MCP Runner with the throughput phase switched on, under the
\* scheduling the asyncio event loop and the clock give: time passes, a
\* runnable worker is run, and (the proviso of C26) a call that was issued
\* returns or raises.
\* The latency loops that run first are kept as short as main() allows (one
\* run per operation, calls that take no time): the throughput settings are
\* what is drawn.
ThroughputInit ==
    /\ Init
    /\ cfg.variant = "mcp" /\ cfg.measure_throughput
    /\ cfg.runs = 1 /\ cfg.d = 0
\* main() of the mcp Runner: no header is written and no socket is measured
ThroughputNext ==
    \/ MakeRunDir
    \/ \E out \in Outcomes : EnterSseClient(out)
    \/ \E out \in Outcomes : EnterClientSession(out)
    \/ \E out \in Outcomes : Initialize(out)
    \/ IssueCall
    \/ \E out \in Outcomes : CallReturns(out)
    \/ OpenCsv
    \/ WriteRow
    \/ CloseCsv
    \/ LoopDone
    \/ StartThroughput
    \/ \E w \in Workers : WorkerRun(w)
    \/ \E w \in Workers, out \in Outcomes : CallCompletes(w, out)
    \/ Tick
    \/ FinishThroughput
    \/ SaveThroughput
    \/ ExitMain

SpecThroughput ==
    /\ ThroughputInit
    /\ [][ThroughputNext]_vars
    /\ WF_vars(Tick)
    /\ \A w \in Workers : WF_vars(WorkerRun(w))
    /\ \A w \in Workers : WF_vars(\E out \in Outcomes : CallCompletes(w, out))
    /\ WF_vars(FinishThroughput)

Issues == hist'.tp_issued > hist.tp_issued
ReturnedResult == results'[Len(results')]
\* C26: a worker issues a call only while the clock is before the deadline
\* start_time + duration_seconds; every benchmark_throughput that started
\* returns (all workers done), and what it returns counts every call that
\* was issued, the ones still in flight at the deadline included.
C26_StopsAtDeadline ==
    /\ [][Issues => (pc = "gather" /\ now < tp.end_time
                     /\ tp.end_time = tp.start_time + cfg.throughput_duration)]_vars
    /\ [][pc = "gather" /\ pc' # "gather" =>
             /\ \A w \in Workers : wpc[w] = "done"
             /\ inflight = {}
             /\ ReturnedResult.total_requests = hist.tp_ok
             /\ ReturnedResult.errors = hist.tp_raised
             /\ hist.tp_ok + hist.tp_raised = hist.tp_issued]_vars
    /\ (pc = "gather") ~> (pc # "gather")
\* a call was still in flight when the deadline passed
C26_Witness ==
    /\ pc = "gather" /\ now >= tp.end_time
    /\ inflight # {} /\ \E w \in Workers : wpc[w] = "done"

\* ------------------------------------------------------------------- C27
RestRunner == cfg.variant = "rest"
\* the data row the rest Runner writes for a returned measurement dl at
\* wall-clock time t
RestRow(t, dl) == <<t>> \o dl.stages \o <<dl.server_processing, dl.total_time>>
LastWritten == buf'[Ops[op]][Len(buf'[Ops[op]])]
\* C27: the rest Runner appends one data row per iteration, failed or not:
\* at every loop head the rows on disk are as many as the measurements made,
\* a finished run has N rows per operation, a measurement that failed at a
\* stage returns zero for that stage and every later one, and the row
\* written is the returned measurement.
C27_OneRowPerIteration ==
    /\ [](RestRunner /\ pc = "loop" =>
             /\ TotalRows = hist.issued
             /\ hist.issued = hist.ok + hist.raised)
    /\ [](RestRunner /\ Finished =>
             /\ pc = "done"
             /\ \A o \in OpSet : Rows(o) = cfg.runs)
    /\ [][\A failAt \in 1..Len(Stages) : Measure(failAt) =>
             /\ pc' = "open"
             /\ \A s \in failAt..Len(Stages) : detailed_latency'.stages[s] = 0
             /\ detailed_latency'.server_processing = 0]_vars
    /\ [][RestRunner /\ pc = "write" /\ pc' = "close" =>
             LastWritten = DataLine(RestRow(now, detailed_latency))]_vars
\* the target is unreachable for the whole run: every measurement failed at
\* sock.connect, and both files still have N rows of zero-valued stages
C27_Witness ==
    /\ RestRunner /\ pc = "done" /\ cfg.d > 0
    /\ hist.raised = 2 * cfg.runs /\ hist.connected = 0
    /\ \A o \in OpSet :
          /\ Rows(o) = cfg.runs
          /\ \A k \in 1..Rows(o) :
                \A s \in StageNo("tcp_connect")..Len(Stages) :
                   DataRows(disk[o])[k].cols[1 + s] = 0

\* ------------------------------------------------------------------- C28
RECURSIVE SumOfStages(_, _)
SumOfStages(st, n) == IF n = 0 THEN 0 ELSE st[n] + SumOfStages(st, n - 1)
\* the half of C28 about total_time on its own
C28_TotalCoversStages ==
    detailed_latency.total_time >= SumOfStages(detailed_latency.stages, Len(Stages))
\* C28: in every dict measure_detailed_latency returned, whether the
\* measurement succeeded or failed at any stage, server_processing equals
\* time_to_first_byte and total_time is at least the sum of the nine stage
\* times.
C28_ServerProcessingIsTtfb ==
    /\ detailed_latency.server_processing =
          detailed_latency.stages[StageNo("time_to_first_byte")]
    /\ C28_TotalCoversStages

\* ------------------------------------------------------------------- C30
\* "true" in any mix of upper and lower case
TrueAnyCase ==
    {s \in Environments :
        /\ Len(s) = 4
        /\ s[1] \in {"t", "T"} /\ s[2] \in {"r", "R"}
        /\ s[3] \in {"u", "U"} /\ s[4] \in {"e", "E"}}
FlagParsing ==
    \A environ \in Environments :
       measure_throughput_of(environ) <=> environ \in TrueAnyCase
CallIssued == hist'.issued > hist.issued
ThroughputPcs == {"throughput", "gather", "save_throughput"}
ThroughputOn == cfg.variant = "mcp" /\ cfg.measure_throughput
LatencyWritten(o) ==
    /\ Rows(o) = cfg.runs
    /\ buf[o] = << >>
    /\ fh[o] = "closed"
\* C30: the phases of one Runner invocation are ordered. A search_modelcards
\* call is issued only when all N get_modelcard rows are on disk; the
\* throughput phase starts only in the mcp Runner, only with the flag parsed
\* from MEASURE_THROUGHPUT = "true" in any case, and only with both latency
\* files complete; more than one call is in flight only inside gather, and
\* never when the flag is off.
C30_PhasesOrdered ==
    /\ [](FlagParsing)
    /\ [][CallIssued /\ Ops[op] = "search_modelcards" =>
             LatencyWritten("get_modelcard")]_vars
    /\ [][pc' \in ThroughputPcs /\ pc \notin ThroughputPcs =>
             /\ ThroughputOn
             /\ pc = "loop" /\ inflight = {}
             /\ \A o \in OpSet : LatencyWritten(o)]_vars
    /\ [](Cardinality(inflight) > 1 => pc = "gather")
    /\ [](~ThroughputOn =>
             /\ pc \notin ThroughputPcs
             /\ hist.tp_issued = 0
             /\ Cardinality(inflight) <= 1)
\* concurrent calls of the throughput phase, after two complete latency files
C30_Witness ==
    /\ ThroughputOn /\ pc = "gather" /\ cfg.runs = MaxRuns
    /\ Cardinality(inflight) > 1
    /\ \A o \in OpSet : Rows(o) = cfg.runs
    /\ \E environ \in Environments :
          environ # <<"t", "r", "u", "e">> /\ measure_throughput_of(environ)

====
